---------------------------- MODULE Spec2Model ----------------------------
(***************************************************************************)
(* Gojo: the partially persistent red-black tree of src/src/gojo/mod.rs.   *)
(* Node records live in an arena `recs` indexed by pointer; the engine is  *)
(* the record of the fields of struct Gojo.  Every handler (insert,        *)
(* remove, college_remove) is one action computed by operators that follow *)
(* the Rust code statement by statement.                                   *)
(***************************************************************************)
EXTENDS Integers, Sequences, FiniteSets, TLC

(* ------------------------------ bounds --------------------------------- *)
\* callers that keep keys unique: keys 1..MaxKey, at most MaxOps versions
MaxKey == 4
MaxOps == 5
\* callers that insert duplicates: keys 1..MaxDupKey, at most MaxDupOps versions
MaxDupKey == 2
MaxDupOps == 5
\* Konan callers: keys 1..MaxKonanKey; at most MaxInserts inserts by the
\* callers that only insert, at most MaxKonanOps inserts and removes by the
\* others
MaxKonanKey == 3
MaxInserts == 14
MaxKonanOps == 7

Keys == 1..MaxKey
KonanKeys == 1..MaxKonanKey
DupKeys == 1..MaxDupKey
\* keys asked in queries: one below and one above the stored range as well
QueryKeys == 0..(MaxKey + 1)

(* --------------------------- program constants ------------------------- *)
MAX_MODS == 6

\* NodePtr handles.  Nil is the engine's sentinel (a real record, null flag
\* set); Null is NodePtr::null() (null pointer, null flag set); Fault is
\* the outcome of dereferencing Null (undefined behaviour: the read faults).
Nil == 0
Null == -1
Fault == -2
\* the outcome of a loop that never ends (it revisits a node of a cyclic
\* link structure): the call does not return
Diverge == -3
\* what an index operator returns when the index is past the end of the
\* Vec: the call panics
OutOfBounds == -4

\* Option<V>: values are positive, NoneV is None
NoneV == 0
\* the value the callers store with key k (the tests insert key << 2)
ValueOf(k) == k * 4

Red == "Red"
Black == "Black"

\* recs, root, len, curr_version, roots: the engine.  status, op, arg, ret:
\* the last call, its key argument and what it returned.  hist: what the
\* caller expects each version to hold.  seen: what get and successor_by_key
\* answered at each version when the call that made it returned, kept by the
\* callers that watch the answers.
\* konan: the packed memory array.  stored: how often the caller expects
\* each key to be stored.  kcall: the last Konan call, its argument and
\* what it returned.  kops: the number of inserts and removes made.
VARIABLES recs, root, len, curr_version, roots, status, op, arg, ret, hist, seen,
          konan, stored, kcall, kops

kvars == <<konan, stored, kcall, kops>>
gvars == <<recs, root, len, curr_version, roots, status, op, arg, ret, hist, seen>>
vars == <<recs, root, len, curr_version, roots, status, op, arg, ret, hist, seen,
          konan, stored, kcall, kops>>

(* ------------------------------ GojoNode ------------------------------- *)
\* GojoNode::default() with key and value set (NodePtr::new)
NodePtr_new(k, v) ==
    [color |-> Red, left |-> Null, right |-> Null, parent |-> Null,
     bk_ptr_left |-> Null, bk_ptr_right |-> Null, bk_ptr_parent |-> Null,
     key |-> k, value |-> v, mods |-> << >>, next_copy |-> Null, version |-> 0]

\* the sentinel built by Gojo::new
NilNode ==
    [NodePtr_new(0, 0) EXCEPT !.color = Black, !.left = Nil, !.right = Nil,
                              !.parent = Nil]

\* Box::into_raw(Box::new(node)): the next free arena index
NewPtr(rs) == Cardinality(DOMAIN rs)

Alloc(rs, node) ==
    [i \in 0..NewPtr(rs) |-> IF i = NewPtr(rs) THEN node ELSE rs[i]]

is_null(p) == p \in {Nil, Null}

\* impl PartialEq for NodePtr: two nulls are equal, otherwise KEYS are compared
ptr_eq(rs, a, b) ==
    IF is_null(a) /\ is_null(b) THEN TRUE
    ELSE IF is_null(a) \/ is_null(b) THEN FALSE
    ELSE rs[a].key = rs[b].key

\* get_last_copy following next_copy whatever the copy's birth version
RECURSIVE get_last_copy_newest(_, _, _)
get_last_copy_newest(rs, p, version) ==
    IF is_null(p) THEN p
    ELSE LET n == rs[p].next_copy IN
         IF ~is_null(n) THEN get_last_copy_newest(rs, n, version) ELSE p

RECURSIVE get_last_copy(_, _, _)
get_last_copy(rs, p, version) ==
    IF is_null(p) THEN p
    ELSE LET n == rs[p].next_copy IN
         IF ~is_null(n) /\ rs[n].version <= version
         THEN get_last_copy(rs, n, version)
         ELSE p

\* the loop without its `if m.version > version { break }`: no entry stops it
ModsStopNever(mods, version) == Len(mods) + 1

\* the loop `for m in mods { if m.version > version { break } ... }`:
\* index of the first entry at which the loop breaks
ModsStop(mods, version) ==
    LET later == {i \in 1..Len(mods) : mods[i].version > version} IN
    IF later = {} THEN Len(mods) + 1
    ELSE CHOOSE i \in later : \A j \in later : i <= j

\* value of the last entry of the given kind visited by the loop, or base
ReadMods(mods, kind, base, version) ==
    LET visited == {i \in 1..(ModsStop(mods, version) - 1) : mods[i].kind = kind} IN
    IF visited = {} THEN base
    ELSE mods[CHOOSE i \in visited : \A j \in visited : j <= i].data

get_color(rs, p, version) ==
    IF is_null(p) THEN Black
    ELSE LET ptr == get_last_copy(rs, p, version) IN
         ReadMods(rs[ptr].mods, "Col", rs[ptr].color, version)

parent(rs, p, version) ==
    IF is_null(p) THEN rs[p].parent
    ELSE LET ptr == get_last_copy(rs, p, version) IN
         get_last_copy(rs, ReadMods(rs[ptr].mods, "Parent", rs[ptr].parent, version),
                       version)

left(rs, p, version) ==
    IF is_null(p) THEN p
    ELSE LET ptr == get_last_copy(rs, p, version) IN
         get_last_copy(rs, ReadMods(rs[ptr].mods, "Left", rs[ptr].left, version),
                       version)

right(rs, p, version) ==
    IF is_null(p) THEN p
    ELSE LET ptr == get_last_copy(rs, p, version) IN
         get_last_copy(rs, ReadMods(rs[ptr].mods, "Right", rs[ptr].right, version),
                       version)

is_red_color(rs, p, version) ==
    IF is_null(p) THEN FALSE ELSE get_color(rs, p, version) = Red

is_black_color(rs, p, version) ==
    IF is_null(p) THEN TRUE ELSE get_color(rs, p, version) = Black

is_left_child(rs, p, version) ==
    LET ptr == get_last_copy(rs, p, version) IN
    ptr_eq(rs, left(rs, parent(rs, ptr, version), version), ptr)

is_right_child(rs, p, version) ==
    LET ptr == get_last_copy(rs, p, version) IN
    ptr_eq(rs, right(rs, parent(rs, ptr, version), version), ptr)

\* A read-only loop over nodes is in the same state whenever it is at the
\* same node, so it ends within as many steps as there are records or not
\* at all.
LoopFuel(rs) == NewPtr(rs)

RECURSIVE min_node_loop(_, _, _, _)
min_node_loop(rs, temp, version, fuel) ==
    IF fuel = 0 THEN Diverge
    ELSE IF ~is_null(left(rs, temp, version))
    THEN min_node_loop(rs, left(rs, temp, version), version, fuel - 1)
    ELSE temp

min_node(rs, p, version) == min_node_loop(rs, p, version, LoopFuel(rs))

(* --------------------------- field writes ------------------------------ *)
\* the baseline field a ModData variant names
ApplyMod(node, kind, data) ==
    CASE kind = "Parent" -> [node EXCEPT !.parent = data]
      [] kind = "Left" -> [node EXCEPT !.left = data]
      [] kind = "Right" -> [node EXCEPT !.right = data]
      [] kind = "Col" -> [node EXCEPT !.color = data]

\* the inverse pointer a ModData variant names (none for Col)
\* a write that leaves the inverse pointers as they were
keep_bk_ptrs(node, kind, data) == node

ApplyBk(node, kind, data) ==
    CASE kind = "Parent" -> [node EXCEPT !.bk_ptr_parent = data]
      [] kind = "Left" -> [node EXCEPT !.bk_ptr_left = data]
      [] kind = "Right" -> [node EXCEPT !.bk_ptr_right = data]
      [] kind = "Col" -> node

RECURSIVE ApplyAllMods(_, _, _)
ApplyAllMods(node, mods, i) ==
    IF i > Len(mods) THEN node
    ELSE ApplyAllMods(ApplyMod(node, mods[i].kind, mods[i].data), mods, i + 1)

clone_with_latest_mods(node) ==
    LET n == ApplyAllMods(node, node.mods, 1) IN
    [n EXCEPT !.mods = << >>, !.next_copy = Null,
              !.version = IF Len(node.mods) > 0
                          THEN node.mods[Len(node.mods)].version
                          ELSE node.version,
              !.bk_ptr_left = n.left, !.bk_ptr_right = n.right,
              !.bk_ptr_parent = n.parent]

RECURSIVE set_modification(_, _, _, _, _)

set_parent(rs, p, new_parent, version) ==
    set_modification(rs, get_last_copy(rs, p, version), "Parent", new_parent, version)

set_left(rs, p, new_left, version) ==
    set_modification(rs, get_last_copy(rs, p, version), "Left", new_left, version)

\* set_right pushing its entry with version 0, not the caller's version
set_right_unversioned(rs, p, new_right, version) ==
    set_modification(rs, get_last_copy(rs, p, version), "Right", new_right, 0)

set_right(rs, p, new_right, version) ==
    set_modification(rs, get_last_copy(rs, p, version), "Right", new_right, version)

\* the copy boxed without `new_gojo_node.version = version`
new_gojo_node_unstamped(rs, self, kind, data, version) ==
    Alloc([rs EXCEPT ![self].next_copy = NewPtr(rs)],
          ApplyBk(ApplyMod(clone_with_latest_mods(rs[self]), kind, data), kind, data))

\* the copy boxed with the old record's mod log moved out of the old record
new_gojo_node_draining(rs, self, kind, data, version) ==
    LET cloned == [clone_with_latest_mods(rs[self]) EXCEPT !.version = version] IN
    Alloc([rs EXCEPT ![self].next_copy = NewPtr(rs), ![self].mods = << >>],
          ApplyBk(ApplyMod(cloned, kind, data), kind, data))

\* set_modification on a full mod log: the copy is boxed at the next free
\* index, linked from the old record and given the written field
new_gojo_node(rs, self, kind, data, version) ==
    LET cloned == [clone_with_latest_mods(rs[self]) EXCEPT !.version = version] IN
    Alloc([rs EXCEPT ![self].next_copy = NewPtr(rs)],
          ApplyBk(ApplyMod(cloned, kind, data), kind, data))

\* "Update left back pontairos"
update_bk_ptr_left(rs, new_node_ptr, version) ==
    LET bk_ptr_left == rs[new_node_ptr].bk_ptr_left IN
    IF ~is_null(bk_ptr_left) /\ is_left_child(rs, bk_ptr_left, version)
    THEN set_parent(rs, bk_ptr_left, new_node_ptr, version)
    ELSE rs

\* "Update right back pontairos"
update_bk_ptr_right(rs, new_node_ptr, version) ==
    LET bk_ptr_right == rs[new_node_ptr].bk_ptr_right IN
    IF ~is_null(bk_ptr_right) /\ is_right_child(rs, bk_ptr_right, version)
    THEN set_parent(rs, bk_ptr_right, new_node_ptr, version)
    ELSE rs

\* "Update parent back pontairos that can have a new root"
update_bk_ptr_parent(rs, self, new_node_ptr, version) ==
    LET bk_ptr_parent == rs[new_node_ptr].bk_ptr_parent IN
    IF is_null(bk_ptr_parent) THEN rs
    ELSE IF ptr_eq(rs, self, left(rs, bk_ptr_parent, version))
         THEN set_left(rs, bk_ptr_parent, new_node_ptr, version)
    ELSE IF ptr_eq(rs, self, right(rs, bk_ptr_parent, version))
         THEN set_right(rs, bk_ptr_parent, new_node_ptr, version)
    ELSE rs

\* set_modification without its test of mods.len(): every write is pushed
set_modification_unbounded(rs, self, kind, data, version) ==
    IF is_null(self) THEN
        [rs EXCEPT ![self] = ApplyMod(rs[self], kind, data)]
    ELSE
        [rs EXCEPT ![self] =
            [ApplyBk(rs[self], kind, data) EXCEPT
                !.mods = Append(rs[self].mods,
                                [kind |-> kind, data |-> data, version |-> version])]]

\* set_modification without its branch for the sentinel: a write to nil is
\* dropped
set_modification_sparing_nil(rs, self, kind, data, version) ==
    IF is_null(self) THEN rs
    ELSE IF Len(rs[self].mods) < MAX_MODS THEN
        [rs EXCEPT ![self] =
            [ApplyBk(rs[self], kind, data) EXCEPT
                !.mods = Append(rs[self].mods,
                                [kind |-> kind, data |-> data, version |-> version])]]
    ELSE
        update_bk_ptr_parent(
            update_bk_ptr_right(
                update_bk_ptr_left(new_gojo_node(rs, self, kind, data, version),
                                   NewPtr(rs), version),
                NewPtr(rs), version),
            self, NewPtr(rs), version)

set_modification(rs, self, kind, data, version) ==
    IF is_null(self) THEN
        [rs EXCEPT ![self] = ApplyMod(rs[self], kind, data)]
    ELSE IF Len(rs[self].mods) < MAX_MODS THEN
        [rs EXCEPT ![self] =
            [ApplyBk(rs[self], kind, data) EXCEPT
                !.mods = Append(rs[self].mods,
                                [kind |-> kind, data |-> data, version |-> version])]]
    ELSE
        update_bk_ptr_parent(
            update_bk_ptr_right(
                update_bk_ptr_left(new_gojo_node(rs, self, kind, data, version),
                                   NewPtr(rs), version),
                NewPtr(rs), version),
            self, NewPtr(rs), version)

set_color(rs, p, color, version) ==
    IF is_null(p) THEN rs
    ELSE LET ptr == get_last_copy(rs, p, version) IN
         IF color = get_color(rs, ptr, version) THEN rs
         ELSE set_modification(rs, ptr, "Col", color, version)

set_red_color(rs, p, version) == set_color(rs, p, Red, version)

set_black_color(rs, p, version) == set_color(rs, p, Black, version)

(* -------------------------------- Gojo --------------------------------- *)
\* the engine as one value: the fields of struct Gojo plus the arena
\* (diverged: a loop of the running call never ends)
Engine == [recs |-> recs, root |-> root, len |-> len,
           curr_version |-> curr_version, roots |-> roots, diverged |-> FALSE]

\* self.roots[version].0 and .1 (the Vec is indexed from 0)
RootOf(g, version) == g.roots[version + 1][1]
LenOf(g, version) == g.roots[version + 1][2]

latest_version(g) == g.curr_version

\* the engine with its arena replaced
with_recs(g, rs) == [g EXCEPT !.recs = rs]

\* left_rotate and right_rotate are one another's mirror image, and so are
\* the two branches of insert_fixup and of delete_fixup: `side` names the
\* branch, child/set_child/is_child the link on that side
Other(side) == IF side = "Left" THEN "Right" ELSE "Left"

child(rs, p, side, version) ==
    IF side = "Left" THEN left(rs, p, version) ELSE right(rs, p, version)

set_child(rs, p, side, new_child, version) ==
    IF side = "Left" THEN set_left(rs, p, new_child, version)
    ELSE set_right(rs, p, new_child, version)

is_child(rs, p, side, version) ==
    IF side = "Left" THEN is_left_child(rs, p, version)
    ELSE is_right_child(rs, p, version)

\* left_rotate: caba.set_right(temp.left(version), version)
rotate_inner(rs, caba, temp, side, version) ==
    set_child(rs, caba, Other(side), child(rs, temp, side, version), version)

\* left_rotate: if !temp.left(version).is_null() { ..set_parent(caba, version) }
rotate_inner_parent(rs, caba, temp, side, version) ==
    IF ~is_null(child(rs, temp, side, version))
    THEN set_parent(rs, child(rs, temp, side, version), caba, version)
    ELSE rs

\* temp.set_parent(caba.parent(version), version)
rotate_temp_parent(rs, caba, temp, version) ==
    set_parent(rs, temp, parent(rs, caba, version), version)

\* the link from caba's parent down to temp (self.root is set by rotate_top)
rotate_parent_link(rs, caba, temp, side, version) ==
    IF is_null(parent(rs, caba, version)) THEN rs
    ELSE IF is_child(rs, caba, side, version)
    THEN set_child(rs, parent(rs, caba, version), side, temp, version)
    ELSE set_child(rs, parent(rs, caba, version), Other(side), temp, version)

\* left_rotate: temp.set_left(caba, version); caba.set_parent(temp, version)
rotate_swap(rs, caba, temp, side, version) ==
    set_parent(set_child(rs, temp, side, caba, version), caba, temp, version)

\* the rotation from `if caba.parent(version).is_null()` on; rs is the arena
\* at that test
rotate_top(g, rs, caba, temp, side) ==
    [g EXCEPT !.recs = rotate_swap(rotate_parent_link(rs, caba, temp, side,
                                                      g.curr_version),
                                   caba, temp, side, g.curr_version),
              !.root = IF is_null(parent(rs, caba, g.curr_version))
                       THEN temp ELSE g.root]

rotate_with(g, caba, temp, side) ==
    rotate_top(g,
               rotate_temp_parent(
                   rotate_inner_parent(
                       rotate_inner(g.recs, caba, temp, side, g.curr_version),
                       caba, temp, side, g.curr_version),
                   caba, temp, g.curr_version),
               caba, temp, side)

\* rotate(g, node, "Left") is left_rotate, rotate(g, node, "Right") right_rotate
rotate(g, node, side) ==
    rotate_with(g, node, child(g.recs, node, Other(side), g.curr_version), side)

left_rotate(g, node) == rotate(g, node, "Left")

right_rotate(g, node) == rotate(g, node, "Right")

\* The fixup loops climb the tree; on a tree they end within its height.
\* A loop still running after twice as many iterations as there are records
\* is taken not to end.
FixupFuel(rs) == 2 * NewPtr(rs)

\* dude.parent(version).parent(version)
grandparent(rs, dude, version) == parent(rs, parent(rs, dude, version), version)

\* dude.parent(version).set_black_color(version)
paint_parent(rs, dude, version) ==
    set_black_color(rs, parent(rs, dude, version), version)

\* the grandparent left with the colour it has
leave_grandparent(rs, dude, version) == rs

\* dude.parent(version).parent(version).set_red_color(version)
paint_grandparent(rs, dude, version) ==
    set_red_color(rs, grandparent(rs, dude, version), version)

\* insert_fixup Case 1 (parent painted first) and Case 4 (uncle first)
insert_fixup_recolor(rs, dude, uncle, side, version) ==
    IF side = "Left"
    THEN paint_grandparent(set_black_color(paint_parent(rs, dude, version),
                                           uncle, version),
                           dude, version)
    ELSE paint_grandparent(paint_parent(set_black_color(rs, uncle, version),
                                        dude, version),
                           dude, version)

\* self.right_rotate(dude.parent(version).parent(version)), or its mirror
rotate_grandparent(g, rs, dude, side) ==
    rotate(with_recs(g, rs), grandparent(rs, dude, g.curr_version), side)

\* insert_fixup Case 3 (side "Right") and Case 6 (side "Left")
insert_fixup_case3(g, dude, side) ==
    rotate_grandparent(g,
                       paint_grandparent(paint_parent(g.recs, dude, g.curr_version),
                                         dude, g.curr_version),
                       dude, side)

RECURSIVE insert_fixup_loop(_, _, _)

\* `dude = dude.parent(version).parent(version); continue`
insert_fixup_continue(g, rs, dude, fuel) ==
    insert_fixup_loop(with_recs(g, rs), grandparent(rs, dude, g.curr_version),
                      fuel - 1)

\* one iteration of insert_fixup's loop, dude's parent being the child on
\* `side` of its own parent
insert_fixup_side(g, dude, side, fuel) ==
    LET version == g.curr_version
        rs == g.recs
        p == parent(rs, dude, version)
        uncle == child(rs, grandparent(rs, dude, version), Other(side), version)
        \* Cases 2 and 5: dude = dude.parent(version)
        turn == is_child(rs, dude, Other(side), version)
    IN  IF is_red_color(rs, uncle, version)
        THEN insert_fixup_continue(
                 g, insert_fixup_recolor(rs, dude, uncle, side, version), dude, fuel)
        ELSE insert_fixup_loop(
                 insert_fixup_case3(IF turn THEN rotate(g, p, side) ELSE g,
                                    IF turn THEN p ELSE dude, Other(side)),
                 IF turn THEN p ELSE dude, fuel - 1)

\* the while loop of insert_fixup; each call is one test of its condition
insert_fixup_loop(g, dude, fuel) ==
    IF ~(/\ ~ptr_eq(g.recs, dude, g.root)
         /\ is_red_color(g.recs, parent(g.recs, dude, g.curr_version),
                         g.curr_version))
    THEN g
    ELSE IF fuel = 0 THEN [g EXCEPT !.diverged = TRUE]
    ELSE insert_fixup_side(
             g, dude,
             IF is_left_child(g.recs, parent(g.recs, dude, g.curr_version),
                              g.curr_version)
             THEN "Left" ELSE "Right",
             fuel)

\* insert_fixup's end without `self.root = possible_new_root.get_last_copy(version)`
keep_root(g, rs) == [g EXCEPT !.recs = rs]

\* the statements of insert_fixup after its loop
set_root_black(g, rs) ==
    [g EXCEPT !.recs = rs, !.root = get_last_copy(rs, g.root, g.curr_version)]

insert_fixup_end(g) ==
    IF g.diverged THEN g
    ELSE set_root_black(g, set_black_color(g.recs, g.root, g.curr_version))

insert_fixup(g, node) ==
    insert_fixup_end(insert_fixup_loop(g, node, FixupFuel(g.recs)))

\* the descent `while !x.is_null()` of insert: returns the last y
RECURSIVE insert_descend(_, _, _, _, _, _)
insert_descend(rs, x, y, k, version, fuel) ==
    IF is_null(x) THEN y
    ELSE IF fuel = 0 THEN Diverge
    ELSE IF k < rs[x].key
         THEN insert_descend(rs, left(rs, x, version), x, k, version, fuel - 1)
         ELSE insert_descend(rs, right(rs, x, version), x, k, version, fuel - 1)

\* insert: the new node boxed and linked under y, or made the root
insert_link(g, k, v, y) ==
    LET node == NewPtr(g.recs)
        version == g.curr_version + 1
        boxed == [NodePtr_new(k, v) EXCEPT !.version = version, !.parent = Nil,
                                           !.left = Nil, !.right = Nil]
        under_y == Alloc(g.recs, [boxed EXCEPT !.parent = y, !.bk_ptr_parent = y])
        started == [g EXCEPT !.len = g.len + 1, !.curr_version = version]
    IN  IF is_null(y)
        THEN [started EXCEPT !.recs = Alloc(g.recs, boxed), !.root = node]
        ELSE IF k < g.recs[y].key
        THEN [started EXCEPT !.recs = set_left(under_y, y, node, version)]
        ELSE [started EXCEPT !.recs = set_right(under_y, y, node, version)]

\* self.roots.push((self.root, new_length))
insert_push(g) ==
    IF g.diverged THEN g
    ELSE [g EXCEPT !.roots = Append(g.roots, <<g.root, g.len>>)]

\* insert from the end of its descent, which left y
insert_at(g, k, v, y) ==
    IF y = Diverge THEN [g EXCEPT !.diverged = TRUE]
    ELSE insert_push(insert_fixup(insert_link(g, k, v, y), NewPtr(g.recs)))

insert(g, k, v) ==
    insert_at(g, k, v,
              insert_descend(g.recs, RootOf(g, g.curr_version), Null, k,
                             g.curr_version + 1, LoopFuel(g.recs)))

\* the loop of find_node from temp; Fault when it reads the key behind Null
RECURSIVE find_node_loop(_, _, _, _, _)
find_node_loop(rs, temp, k, version, fuel) ==
    IF temp = Null THEN Fault
    ELSE IF fuel = 0 THEN Diverge
    ELSE IF k = rs[temp].key THEN temp
    ELSE LET nxt == IF k < rs[temp].key THEN left(rs, temp, version)
                    ELSE right(rs, temp, version)
         IN  IF is_null(nxt) THEN Null
             ELSE find_node_loop(rs, nxt, k, version, fuel - 1)

find_node(g, k, version) ==
    IF version > g.curr_version THEN Null
    ELSE find_node_loop(g.recs, RootOf(g, version), k, version, LoopFuel(g.recs))

\* Option<&V>: NoneV, the value, or how the call ends without returning
get(g, k, version) ==
    LET node == find_node(g, k, version) IN
    IF node \in {Fault, Diverge} THEN node
    ELSE IF is_null(node) THEN NoneV
    ELSE g.recs[node].value

\* bool, or how the call ends without returning
contains_key(g, k, version) ==
    LET node == find_node(g, k, version) IN
    IF node \in {Fault, Diverge} THEN node ELSE ~is_null(node)

\* the while loop of successor_by_node: climbs while x is a right child
RECURSIVE successor_climb(_, _, _, _, _)
successor_climb(rs, x, y, version, fuel) ==
    IF ~is_null(y) /\ is_right_child(rs, x, version)
    THEN IF fuel = 0 THEN Diverge
         ELSE successor_climb(rs, y, parent(rs, y, version), version, fuel - 1)
    ELSE y

successor_by_node(rs, node, version) ==
    IF ~is_null(right(rs, node, version))
    THEN min_node(rs, right(rs, node, version), version)
    ELSE successor_climb(rs, node, parent(rs, node, version), version, LoopFuel(rs))

\* the descent loop of successor_by_key: the last node on the search path
RECURSIVE successor_descend(_, _, _, _, _)
successor_descend(rs, x, k, version, fuel) ==
    IF x = Null THEN Fault
    ELSE IF fuel = 0 THEN Diverge
    ELSE LET nxt == IF k < rs[x].key THEN left(rs, x, version)
                    ELSE right(rs, x, version)
         IN  IF is_null(nxt) THEN x
             ELSE successor_descend(rs, nxt, k, version, fuel - 1)

\* Option<&V>: NoneV, the value, or how the call ends without returning
successor_by_key(g, k, version) ==
    IF version > latest_version(g) THEN NoneV
    ELSE LET x == successor_descend(g.recs, RootOf(g, version), k, version,
                                    LoopFuel(g.recs))
         IN
         IF x \in {Fault, Diverge} THEN x
         ELSE IF is_null(x) THEN NoneV
         ELSE IF k < g.recs[x].key THEN g.recs[x].value
         ELSE LET succ == successor_by_node(g.recs, x, version) IN
              IF succ = Diverge THEN Diverge
              ELSE IF is_null(succ) THEN NoneV ELSE g.recs[succ].value

RECURSIVE max_node_loop(_, _, _, _)
max_node_loop(rs, temp, version, fuel) ==
    IF fuel = 0 THEN Diverge
    ELSE IF ~is_null(right(rs, temp, version))
    THEN max_node_loop(rs, right(rs, temp, version), version, fuel - 1)
    ELSE temp

max_node(rs, p, version) == max_node_loop(rs, p, version, LoopFuel(rs))

\* the while loop of predecessor_helper: climbs while x is a left child
RECURSIVE predecessor_climb(_, _, _, _, _)
predecessor_climb(rs, x, y, version, fuel) ==
    IF ~is_null(y) /\ is_left_child(rs, x, version)
    THEN IF fuel = 0 THEN Diverge
         ELSE predecessor_climb(rs, y, parent(rs, y, version), version, fuel - 1)
    ELSE y

predecessor_helper(rs, node, version) ==
    IF ~is_null(left(rs, node, version))
    THEN max_node(rs, left(rs, node, version), version)
    ELSE predecessor_climb(rs, node, parent(rs, node, version), version, LoopFuel(rs))

\* Option<&V>: NoneV, the value, or how the call ends without returning
predecessor(g, k, version) ==
    LET node == find_node(g, k, version) IN
    IF node \in {Fault, Diverge} THEN node
    ELSE IF is_null(node) THEN NoneV
    ELSE LET succ == predecessor_helper(g.recs, node, version) IN
         IF succ = Diverge THEN Diverge
         ELSE IF is_null(succ) THEN NoneV ELSE g.recs[succ].value

\* v.set_parent(u.parent(version), version)
transplant_parent(g, u, other) ==
    with_recs(g, set_parent(g.recs, other, parent(g.recs, u, g.curr_version),
                            g.curr_version))

transplant(g, u, other) ==
    LET version == g.curr_version
        rs == g.recs
    IN  transplant_parent(
            IF is_null(parent(rs, u, version)) THEN [g EXCEPT !.root = other]
            ELSE with_recs(g, set_child(rs, parent(rs, u, version),
                                        IF is_left_child(rs, u, version)
                                        THEN "Left" ELSE "Right",
                                        other, version)),
            u, other)

\* x.parent(version).right(version) when x is a left child, or its mirror
brother_of(rs, x, side, version) ==
    child(rs, parent(rs, x, version), Other(side), version)

\* x.parent(version).set_red_color(version)
paint_parent_red(rs, x, version) ==
    set_red_color(rs, parent(rs, x, version), version)

\* brother.right(version).set_black_color(version), or its mirror
paint_nephew(rs, brother, side, version) ==
    set_black_color(rs, child(rs, brother, side, version), version)

\* self.left_rotate(x.parent(version)), or its mirror
rotate_parent(g, rs, x, side) ==
    rotate(with_recs(g, rs), parent(rs, x, g.curr_version), side)

\* delete_fixup Case 1, x being the child on `side`: the engine afterwards
delete_fixup_case1(g, x, side) ==
    LET version == g.curr_version
        brother == brother_of(g.recs, x, side, version)
    IN  IF is_red_color(g.recs, brother, version)
        THEN rotate_parent(g,
                           paint_parent_red(set_black_color(g.recs, brother, version),
                                            x, version),
                           x, side)
        ELSE g

\* delete_fixup Case 3: the engine afterwards
delete_fixup_case3(g, x, side) ==
    LET version == g.curr_version
        brother == brother_of(g.recs, x, side, version)
    IN  IF is_black_color(g.recs, child(g.recs, brother, Other(side), version), version)
        THEN rotate(with_recs(g, set_red_color(paint_nephew(g.recs, brother, side,
                                                            version),
                                               brother, version)),
                    brother, Other(side))
        ELSE g

\* delete_fixup Case 4: the engine afterwards
delete_fixup_case4(g, x, side) ==
    LET version == g.curr_version
        rs == g.recs
        brother == brother_of(rs, x, side, version)
    IN  rotate_parent(
            g,
            paint_nephew(
                paint_parent(set_color(rs, brother,
                                       get_color(rs, parent(rs, x, version), version),
                                       version),
                             x, version),
                brother, Other(side), version),
            x, side)

RECURSIVE delete_fixup_loop(_, _, _)

\* Case 2 after brother.set_red_color(version): x = x.parent(version)
delete_fixup_climb(g, rs, x, fuel) ==
    delete_fixup_loop(with_recs(g, rs), parent(rs, x, g.curr_version), fuel - 1)

\* Case 4 ends with x = self.root
delete_fixup_from_root(g, fuel) == delete_fixup_loop(g, g.root, fuel - 1)

\* one iteration of delete_fixup's loop from Case 2 on; g is the engine
\* after Case 1
delete_fixup_side(g, x, side, fuel) ==
    LET version == g.curr_version
        rs == g.recs
        brother == brother_of(rs, x, side, version)
    IN  IF /\ is_black_color(rs, child(rs, brother, side, version), version)
           /\ is_black_color(rs, child(rs, brother, Other(side), version), version)
        THEN delete_fixup_climb(g, set_red_color(rs, brother, version), x, fuel)
        ELSE delete_fixup_from_root(
                 delete_fixup_case4(delete_fixup_case3(g, x, side), x, side), fuel)

\* the while loop of delete_fixup; each call is one test of its condition.
\* Returns the engine and the x the loop ended with.
delete_fixup_loop(g, x, fuel) ==
    LET side == IF is_left_child(g.recs, x, g.curr_version) THEN "Left" ELSE "Right"
    IN
    IF ~(~ptr_eq(g.recs, x, g.root) /\ is_black_color(g.recs, x, g.curr_version))
    THEN [g |-> g, x |-> x]
    ELSE IF fuel = 0 THEN [g |-> [g EXCEPT !.diverged = TRUE], x |-> x]
    ELSE delete_fixup_side(delete_fixup_case1(g, x, side), x, side, fuel)

\* the statement of delete_fixup after its loop: x.set_black_color(version)
delete_fixup_end(r) ==
    IF r.g.diverged THEN r.g
    ELSE with_recs(r.g, set_black_color(r.g.recs, r.x, r.g.curr_version))

delete_fixup(g, caba) ==
    delete_fixup_end(delete_fixup_loop(g, caba, FixupFuel(g.recs)))

\* delete, z with two children and y's parent not x:
\* y.set_right(z.right(version), version)
delete_y_right(g, z, y) ==
    with_recs(g, set_right(g.recs, y, right(g.recs, z, g.curr_version),
                           g.curr_version))

\* y.right(version).set_parent(y, version)
delete_y_right_parent(g, y) ==
    with_recs(g, set_parent(g.recs, right(g.recs, y, g.curr_version), y,
                            g.curr_version))

\* y.set_left(z.left(version), version)
delete_y_left(g, z, y) ==
    with_recs(g, set_left(g.recs, y, left(g.recs, z, g.curr_version),
                          g.curr_version))

\* z.left(version).set_parent(y, version)
delete_z_left_parent(g, z, y) ==
    with_recs(g, set_parent(g.recs, left(g.recs, z, g.curr_version), y,
                            g.curr_version))

\* y.set_color(z.get_color(version), version)
delete_y_color(g, z, y) ==
    with_recs(g, set_color(g.recs, y, get_color(g.recs, z, g.curr_version),
                           g.curr_version))

\* the first statements of the two-children branch of delete
delete_detach_y(g, z, y, x) ==
    IF ptr_eq(g.recs, parent(g.recs, y, g.curr_version), x)
    THEN with_recs(g, set_parent(g.recs, x, y, g.curr_version))
    ELSE delete_y_right_parent(delete_y_right(transplant(g, y, x), z, y), y)

\* delete up to its fixup when z has two children and y is what
\* successor_by_node returned: the engine, x, y and y's original colour
delete_two_children(g, z, y) ==
    IF y = Diverge
    THEN [g |-> [g EXCEPT !.diverged = TRUE], x |-> Nil, y |-> z,
          original_y_color |-> Red]
    ELSE [g |-> delete_y_color(
                    delete_z_left_parent(
                        delete_y_left(
                            transplant(
                                delete_detach_y(g, z, y,
                                                right(g.recs, y, g.curr_version)),
                                z, y),
                            z, y),
                        z, y),
                    z, y),
          x |-> right(g.recs, y, g.curr_version),
          y |-> y,
          original_y_color |-> get_color(g.recs, y, g.curr_version)]

\* delete up to its fixup when z lacks a child: x, the other child, takes
\* z's place
delete_one_child(g, z, x) ==
    [g |-> transplant(g, z, x), x |-> x, y |-> z,
     original_y_color |-> get_color(g.recs, z, g.curr_version)]

\* if original_y_color == Color::Black { self.delete_fixup(x) }
delete_fix(d) ==
    IF d.original_y_color = Black /\ ~d.g.diverged
    THEN [d EXCEPT !.g = delete_fixup(d.g, d.x)]
    ELSE d

\* the (key, value) pair read from y's record
delete_return(d) ==
    [g |-> d.g, key |-> d.g.recs[d.y].key, value |-> d.g.recs[d.y].value]

\* returns the engine and the (key, value) pair delete hands back
delete(g, z) ==
    LET version == g.curr_version
        rs == g.recs
    IN  delete_return(delete_fix(
            IF is_null(left(rs, z, version)) \/ is_null(right(rs, z, version))
            THEN delete_one_child(g, z, IF is_null(left(rs, z, version))
                                        THEN right(rs, z, version)
                                        ELSE left(rs, z, version))
            ELSE delete_two_children(g, z, successor_by_node(rs, z, version))))

\* `self.root = self.root.get_last_copy(..)` and the same for the registry
\* entry of the new version
refresh_root(g) ==
    LET version == g.curr_version
        new_root == get_last_copy(g.recs, g.root, version)
    IN  [g EXCEPT !.root = new_root,
                  !.roots[version + 1] =
                      <<get_last_copy(g.recs, new_root, version),
                        g.roots[version + 1][2]>>]

\* what remove and college_remove return after delete
removed(d) ==
    IF d.g.diverged THEN [g |-> d.g, ret |-> Diverge]
    ELSE [g |-> refresh_root(d.g), ret |-> d.value]

\* the part of remove and college_remove after the key was found
remove_found(g, node) ==
    removed(delete([g EXCEPT !.len = g.len - 1,
                             !.curr_version = g.curr_version + 1,
                             !.roots = Append(g.roots, <<g.root, g.len - 1>>)],
                   node))

\* remove with the outcome `node` of its find_node call
remove(g, node) ==
    IF is_null(node) THEN [g |-> g, ret |-> NoneV]
    ELSE remove_found(g, node)

\* college_remove with the outcome `node` of its find_node call
college_remove(g, node) ==
    IF is_null(node)
    THEN [g |-> [g EXCEPT !.curr_version = g.curr_version + 1,
                          !.roots = Append(g.roots, <<g.root, g.len>>)],
          ret |-> NoneV]
    ELSE remove_found(g, node)

\* NodePtr::next: the in-order successor used by GojoIter
RECURSIVE next_climb(_, _, _, _)
next_climb(rs, temp, version, fuel) ==
    IF fuel = 0 THEN Diverge
    ELSE IF is_null(parent(rs, temp, version)) THEN Null
    ELSE IF is_left_child(rs, temp, version) THEN parent(rs, temp, version)
    ELSE next_climb(rs, parent(rs, temp, version), version, fuel - 1)

next(rs, p, version) ==
    IF ~is_null(right(rs, p, version))
    THEN min_node(rs, right(rs, p, version), version)
    ELSE next_climb(rs, p, version, LoopFuel(rs))

first_child(rs, r, version) ==
    IF is_null(r) THEN Null ELSE min_node(rs, r, version)

last_child(rs, r, version) ==
    IF is_null(r) THEN Null ELSE max_node(rs, r, version)

\* GojoIter::next applied until it returns None: the (key, value) pairs
\* yielded; a call that never returns ends the sequence with <<Diverge, 0>>
RECURSIVE GojoIter_collect(_, _, _, _)
GojoIter_collect(rs, head, n, version) ==
    IF head = Diverge THEN << <<Diverge, 0>> >>
    ELSE IF n = 0 \/ is_null(head) THEN << >>
    ELSE << <<rs[head].key, rs[head].value>> >>
         \o GojoIter_collect(rs, next(rs, head, version), n - 1, version)

\* iter(version): err is the UnknownVersion error, items what the iterator
\* yields; head and tail are computed before it is returned
iter(g, version) ==
    IF version > latest_version(g)
    THEN [err |-> TRUE, head |-> Null, tail |-> Null, items |-> << >>]
    ELSE [err |-> FALSE,
          head |-> first_child(g.recs, RootOf(g, version), version),
          tail |-> last_child(g.recs, RootOf(g, version), version),
          items |-> IF last_child(g.recs, RootOf(g, version), version) = Diverge
                    THEN << <<Diverge, 0>> >>
                    ELSE GojoIter_collect(
                             g.recs, first_child(g.recs, RootOf(g, version), version),
                             LenOf(g, version), version)]

\* NodeInfo::from_node_ptr: key, value and colour are read through the
\* pointer, so a NodePtr::null() faults; a hung walk is handed on.  depth is
\* a usize kept as an integer: below 0 stands for what 0 - 1 gives (a panic
\* with overflow checks, a wrapped value without)
from_node_ptr(rs, node_ptr, depth, version) ==
    IF node_ptr \in {Null, Fault, Diverge}
    THEN [depth |-> depth, node_ptr |-> IF node_ptr = Null THEN Fault ELSE node_ptr,
          color |-> Black, key |-> 0, value |-> 0]
    ELSE [depth |-> depth, node_ptr |-> node_ptr,
          color |-> get_color(rs, node_ptr, version),
          key |-> rs[node_ptr].key, value |-> rs[node_ptr].value]

\* Option<NodeInfo>::None
NoNodeInfo == [depth |-> 0, node_ptr |-> Null, color |-> Black, key |-> 0, value |-> 0]

\* `while !x.left(version).is_null() { x = x.left(version); depth += 1 }`
RECURSIVE NodeInfo_descend(_, _, _, _, _)
NodeInfo_descend(rs, x, depth, version, fuel) ==
    IF fuel = 0 THEN from_node_ptr(rs, Diverge, depth, version)
    ELSE IF ~is_null(left(rs, x, version))
    THEN NodeInfo_descend(rs, left(rs, x, version), depth + 1, version, fuel - 1)
    ELSE from_node_ptr(rs, x, depth, version)

\* NodeInfo::successor from `let mut y = x.parent(version)` on
RECURSIVE NodeInfo_climb(_, _, _, _, _, _)
NodeInfo_climb(rs, x, y, depth, version, fuel) ==
    IF ~is_null(y) /\ ptr_eq(rs, x, right(rs, y, version))
    THEN IF fuel = 0 THEN from_node_ptr(rs, Diverge, depth, version)
         ELSE NodeInfo_climb(rs, y, parent(rs, y, version), depth - 1, version,
                             fuel - 1)
    ELSE IF is_null(y) THEN NoNodeInfo
    ELSE from_node_ptr(rs, y, depth - 1, version)

\* NodeInfo::successor (NodeInfo::next calls it)
NodeInfo_successor(rs, info, version) ==
    IF ~is_null(right(rs, info.node_ptr, version))
    THEN NodeInfo_descend(rs, right(rs, info.node_ptr, version), info.depth + 1,
                          version, LoopFuel(rs))
    ELSE NodeInfo_climb(rs, info.node_ptr, parent(rs, info.node_ptr, version),
                        info.depth, version, LoopFuel(rs))

NodeInfo_first_child(rs, r, version) ==
    IF is_null(r) THEN from_node_ptr(rs, Null, 0, version)
    ELSE NodeInfo_descend(rs, r, 0, version, LoopFuel(rs))

\* NodeInfo::last_child, of which only the pointer is kept here: nothing
\* reads the tail's depth
NodeInfo_last_child(rs, r, version) ==
    IF is_null(r) THEN Fault ELSE max_node(rs, r, version)

\* NodeInfoIter::next applied until it returns None: the NodeInfo values
\* yielded; a call that faults or never returns ends the sequence with a
\* NodeInfo whose node_ptr says so
RECURSIVE NodeInfoIter_collect(_, _, _, _)
NodeInfoIter_collect(rs, head, n, version) ==
    IF head.node_ptr \in {Fault, Diverge} THEN << head >>
    ELSE IF n = 0 \/ head = NoNodeInfo THEN << >>
    ELSE << head >>
         \o NodeInfoIter_collect(rs, NodeInfo_successor(rs, head, version), n - 1,
                                 version)

\* node_info_iter(version): err is the UnknownVersion error, items what the
\* iterator yields; head and tail are computed before it is returned
node_info_iter(g, version) ==
    IF version > latest_version(g)
    THEN [err |-> TRUE, head |-> NoNodeInfo, tail |-> Null, items |-> << >>]
    ELSE LET tail == NodeInfo_last_child(g.recs, RootOf(g, version), version) IN
         [err |-> FALSE,
          head |-> NodeInfo_first_child(g.recs, RootOf(g, version), version),
          tail |-> tail,
          items |-> IF tail \in {Fault, Diverge}
                    THEN << from_node_ptr(g.recs, tail, 0, version) >>
                    ELSE NodeInfoIter_collect(
                             g.recs,
                             NodeInfo_first_child(g.recs, RootOf(g, version), version),
                             LenOf(g, version), version)]

\* len(version): Option<usize>, None as -1
len_at(g, version) ==
    IF version > latest_version(g) THEN -1 ELSE LenOf(g, version)

is_empty(g, version) ==
    IF version > latest_version(g) THEN TRUE ELSE LenOf(g, version) = 0

(* -------------------------------- Konan -------------------------------- *)
\* The packed memory array of src/src/konan/mod.rs.  data is indexed from
\* 0 as the Vec is; a slot is NoneV or a key; leaf_heads is a sequence.
\* panicked: the call ended in a panic (an index out of bounds, the panic!
\* of update_new_leaf_heads, a division by zero).

\* Konan::default
NewKonan ==
    [data |-> [i \in 0..1 |-> NoneV], leaf_heads |-> << >>, segment_size |-> 2,
     height |-> 0, panicked |-> FALSE]

\* self.data.len()
DataLen(k) == Cardinality(DOMAIN k.data)

Panic(k) == [k EXCEPT !.panicked = TRUE]

\* the binary searches of search_leaf_to_insert, search_leaf_to_remove and
\* successor over leaf_heads: <<low, high>> when the loop ends
RECURSIVE binary_search(_, _, _, _, _)
binary_search(heads, v, low, high, caller) ==
    IF low > high THEN <<low, high>>
    ELSE LET mid == (low + high) \div 2 IN
         IF v < heads[mid + 1] THEN binary_search(heads, v, low, mid - 1, caller)
         ELSE IF v > heads[mid + 1] THEN binary_search(heads, v, mid + 1, high, caller)
         ELSE CASE caller = "insert" -> binary_search(heads, v, low, mid - 1, caller)
                [] caller = "remove" -> <<low, mid>>
                [] caller = "successor" -> binary_search(heads, v, mid + 1, high, caller)

\* search_leaf_to_insert (caller "insert") and search_leaf_to_remove
search_leaf(k, v, caller) ==
    IF k.leaf_heads = << >> THEN [start |-> 0, end |-> 1]
    ELSE LET high == binary_search(k.leaf_heads, v, 0, Len(k.leaf_heads) - 1,
                                   caller)[2]
         IN  IF high < 0 THEN [start |-> 0, end |-> k.segment_size - 1]
             ELSE [start |-> high * k.segment_size,
                   end |-> high * k.segment_size + k.segment_size - 1]

scan(k, start, end) ==
    [valid_elements |-> Cardinality({i \in start..end : i \in DOMAIN k.data
                                                        /\ k.data[i] # NoneV}),
     positions_in_vec |-> end - start + 1,
     panic |-> end < start \/ \E i \in start..end : i \notin DOMAIN k.data]

\* `while idx < end && self.data[idx].is_some() == some { idx += 1 }`: the
\* idx the loop ends with, or OutOfBounds when it indexes past the Vec
RECURSIVE skip(_, _, _, _)
skip(data, idx, end, some) ==
    IF idx >= end THEN idx
    ELSE IF idx \notin DOMAIN data THEN OutOfBounds
    ELSE IF (data[idx] # NoneV) = some THEN skip(data, idx + 1, end, some)
    ELSE idx

\* `while left_none_idx > leaf.start && self.data[left_none_idx].is_some()`
RECURSIVE skip_left(_, _, _)
skip_left(data, idx, start) ==
    IF idx > start /\ data[idx] # NoneV THEN skip_left(data, idx - 1, start)
    ELSE idx

\* the slot get_leaf_head returns: a key, NoneV, or OutOfBounds
get_leaf_head(k, leaf) ==
    LET idx == skip(k.data, leaf.start, leaf.end, FALSE) IN
    IF idx \notin DOMAIN k.data THEN OutOfBounds ELSE k.data[idx]

\* `self.data[idx] = Some(v)` without the rotate_right(1) before it
store_unrotated(k, v, idx, none_idx) ==
    IF none_idx \notin DOMAIN k.data \/ none_idx < idx THEN Panic(k)
    ELSE [k EXCEPT !.data[idx] = v]

\* `self.data[idx..=none_idx].rotate_right(1); self.data[idx] = Some(v)`
shift_right(k, v, idx, none_idx) ==
    IF none_idx \notin DOMAIN k.data \/ none_idx < idx THEN Panic(k)
    ELSE [k EXCEPT !.data =
            [i \in DOMAIN k.data |->
                IF i = idx THEN v
                ELSE IF idx < i /\ i <= none_idx THEN k.data[i - 1]
                ELSE k.data[i]]]

\* the last case is "we must push to the left": rotate_left(1) of
\* data[left_none_idx..idx], v stored at idx - 1 and swapped with data[idx]
\* when it is the greater
insert_element_at(k, v, idx, leaf) ==
    IF idx \notin DOMAIN k.data THEN Panic(k)
    ELSE IF k.data[idx] = NoneV THEN [k EXCEPT !.data[idx] = v]
    ELSE IF idx = leaf.start
    THEN shift_right(k, v, idx, skip(k.data, leaf.start, leaf.end, TRUE))
    ELSE LET right_none_idx == skip(k.data, idx, leaf.end, TRUE)
             left_none_idx == skip_left(k.data, idx, leaf.start)
         IN  IF right_none_idx \notin DOMAIN k.data THEN Panic(k)
             ELSE IF k.data[right_none_idx] = NoneV
             THEN shift_right(k, v, idx, right_none_idx)
             ELSE IF left_none_idx >= idx THEN Panic(k)
             ELSE [k EXCEPT !.data =
                     [i \in DOMAIN k.data |->
                         IF left_none_idx <= i /\ i < idx - 1 THEN k.data[i + 1]
                         ELSE IF i = idx - 1
                         THEN (IF v > k.data[idx] THEN k.data[idx] ELSE v)
                         ELSE IF i = idx
                         THEN (IF v > k.data[idx] THEN v ELSE k.data[idx])
                         ELSE k.data[i]]]

\* head is what get_leaf_head returns before insert_element_at is called
insert_on_leaf(k, v, leaf, position) ==
    LET head == get_leaf_head(k, leaf)
        k1 == insert_element_at(k, v, position, leaf)
        leaf_head_position == leaf.start \div k1.segment_size + 1
    IN  IF k.panicked \/ head = OutOfBounds THEN Panic(k)
        ELSE IF k1.panicked THEN k1
        ELSE IF head = NoneV
        THEN [k1 EXCEPT !.leaf_heads = Append(k1.leaf_heads, v)]
        ELSE IF v < head
        THEN IF k1.segment_size = 0 \/ leaf_head_position \notin DOMAIN k1.leaf_heads
             THEN Panic(k1)
             ELSE [k1 EXCEPT !.leaf_heads[leaf_head_position] = v]
        ELSE k1

\* find_element_position_in_leaf, its loop from index i on with pos as it
\* stands: the pos returned, or OutOfBounds
RECURSIVE find_element_position_in_leaf(_, _, _, _, _)
find_element_position_in_leaf(data, v, i, end, pos) ==
    IF i > end THEN pos
    ELSE IF i \notin DOMAIN data THEN OutOfBounds
    ELSE IF data[i] = NoneV
    THEN find_element_position_in_leaf(data, v, i + 1, end, pos)
    ELSE IF v < data[i] THEN pos
    ELSE IF v > data[i]
    THEN find_element_position_in_leaf(data, v, i + 1, end,
                                       IF i = end THEN i ELSE i + 1)
    ELSE find_element_position_in_leaf(data, v, i + 1, end, pos)

\* Option<usize> as a sequence: << >> is None, <<i>> is Some(i),
\* <<OutOfBounds>> a panic.  The range is leaf.start..leaf.end.
RECURSIVE find_position_to_remove(_, _, _, _)
find_position_to_remove(data, v, i, end) ==
    IF i >= end THEN << >>
    ELSE IF i \notin DOMAIN data THEN << OutOfBounds >>
    ELSE IF data[i] = v THEN << i >>
    ELSE find_position_to_remove(data, v, i + 1, end)

\* the slot is cleared; a cleared head slot is swapped with the first
\* occupied slot of the leaf
remove_element_at(k, position, leaf) ==
    LET cleared == [k.data EXCEPT ![position] = NoneV]
        idx == skip(cleared, leaf.start, leaf.end, FALSE)
    IN  IF position # leaf.start THEN [k EXCEPT !.data = cleared]
        ELSE IF idx \notin DOMAIN cleared THEN Panic(k)
        ELSE [k EXCEPT !.data = [cleared EXCEPT ![position] = cleared[idx],
                                                ![idx] = cleared[position]]]

\* density is num / den; depth / self.height is an integer division, and
\* the bounds 0.5 - 0.25 * d and 0.75 + 0.25 * d are compared in quarters
is_right_density(k, depth, num, den) ==
    LET depth_over_height == IF k.height = 0 THEN 0 ELSE depth \div k.height IN
    /\ (2 - depth_over_height) * den <= 4 * num
    /\ (3 + depth_over_height) * den >= 4 * num

\* floor of log2; `log2(n) < m` for a whole m is `Log2(n) < m`
RECURSIVE Log2(_)
Log2(n) == IF n <= 1 THEN 0 ELSE 1 + Log2(n \div 2)

\* expand with `self.height += 1` on both branches
expand_height_only(k) ==
    [k EXCEPT !.data = [i \in 0..(2 * DataLen(k) - 1) |->
                           IF i \in DOMAIN k.data THEN k.data[i] ELSE NoneV],
              !.height = k.height + 1]

expand(k) ==
    LET new_len == 2 * DataLen(k)
        grown == [i \in 0..(new_len - 1) |->
                     IF i \in DOMAIN k.data THEN k.data[i] ELSE NoneV]
    IN  IF Log2(new_len) < 2 * Len(k.leaf_heads)
        THEN [k EXCEPT !.data = grown, !.segment_size = 2 * k.segment_size]
        ELSE [k EXCEPT !.data = grown, !.height = k.height + 1]

\* the keys of data[start..=end] in slot order
RECURSIVE Compact(_, _, _)
Compact(data, start, end) ==
    IF start > end THEN << >>
    ELSE (IF data[start] = NoneV THEN << >> ELSE << data[start] >>)
         \o Compact(data, start + 1, end)

\* halving without its adjustment of height or segment_size
halving_data_only(k) ==
    IF DataLen(k) = 2 THEN k
    ELSE [k EXCEPT !.data =
            [i \in 0..(DataLen(k) \div 2 - 1) |->
                IF i + 1 <= Len(Compact(k.data, 0, DataLen(k) - 1))
                THEN Compact(k.data, 0, DataLen(k) - 1)[i + 1] ELSE NoneV]]

halving(k) ==
    IF DataLen(k) = 2 THEN k
    ELSE LET new_len == DataLen(k) \div 2
             kept == Compact(k.data, 0, DataLen(k) - 1)
             shrunk == [i \in 0..(new_len - 1) |->
                          IF i + 1 <= Len(kept) THEN kept[i + 1] ELSE NoneV]
         IN  IF Log2(new_len) < 2 * Len(k.leaf_heads) /\ k.height > 0
             THEN [k EXCEPT !.data = shrunk, !.height = k.height - 1]
             ELSE [k EXCEPT !.data = shrunk,
                            !.segment_size = k.segment_size \div 2]

update_new_leaf_heads(k) ==
    IF k.panicked \/ k.segment_size = 0 THEN Panic(k)
    ELSE LET heads == [n \in 1..((DataLen(k) + k.segment_size - 1)
                                  \div k.segment_size) |->
                          k.data[(n - 1) * k.segment_size]]
         IN  IF \E n \in DOMAIN heads : heads[n] = NoneV THEN Panic(k)
             ELSE [k EXCEPT !.leaf_heads = heads]

\* rebalance, the loop over the segments: segment s takes the next
\* per_segment elements of copy_vec (None once they are used up) from its
\* first slot on; a slot written twice keeps the later write
rebalance_fill(k, start, end, amount_of_segments, per_segment, copy_vec) ==
    LET S == k.segment_size
        slots == {start + s * S + idx : s \in 0..(amount_of_segments - 1),
                                        idx \in 0..(per_segment - 1)}
        last_s(j) == CHOOSE s \in 0..(amount_of_segments - 1) :
                        /\ j - start - s * S \in 0..(per_segment - 1)
                        /\ \A t \in 0..(amount_of_segments - 1) :
                              j - start - t * S \in 0..(per_segment - 1) => t <= s
        nth(j) == last_s(j) * per_segment + (j - start - last_s(j) * S) + 1
    IN  IF \E j \in slots : j \notin DOMAIN k.data THEN Panic(k)
        ELSE [k EXCEPT !.data =
                [j \in DOMAIN k.data |->
                    IF j \in slots
                    THEN (IF nth(j) <= Len(copy_vec) THEN copy_vec[nth(j)] ELSE NoneV)
                    ELSE IF start <= j /\ j <= end THEN NoneV
                    ELSE k.data[j]]]

\* rebalance, `if will_have_empty_segments`: what the loop left of copy_vec
\* goes to the slots from last_segment_start on
rebalance_tail(k, end, used, per_segment, copy_vec) ==
    LET last_segment_start == (end - k.segment_size) + per_segment + 1 IN
    IF k.panicked THEN k
    ELSE IF end < k.segment_size
            \/ \E n \in (used + 1)..Len(copy_vec) :
                  last_segment_start + (n - used - 1) \notin DOMAIN k.data
    THEN Panic(k)
    ELSE [k EXCEPT !.data =
            [j \in DOMAIN k.data |->
                IF j >= last_segment_start
                   /\ used + 1 + (j - last_segment_start) <= Len(copy_vec)
                THEN copy_vec[used + 1 + (j - last_segment_start)]
                ELSE k.data[j]]]

rebalance(k, start, end) ==
    IF k.panicked \/ scan(k, start, end).panic \/ k.segment_size = 0 THEN Panic(k)
    ELSE LET valid == scan(k, start, end).valid_elements
             amount_of_segments ==
                 ((end - start + 1) + k.segment_size - 1) \div k.segment_size
             maximum == (valid + amount_of_segments - 1) \div amount_of_segments
             minimum == valid \div amount_of_segments
             will_have_empty_segments == maximum * (amount_of_segments - 1) >= valid
             per_segment == IF will_have_empty_segments THEN minimum ELSE maximum
             copy_vec == Compact(k.data, start, end)
         IN  update_new_leaf_heads(
                 IF will_have_empty_segments
                 THEN rebalance_tail(
                          rebalance_fill(k, start, end, amount_of_segments,
                                         per_segment, copy_vec),
                          end, amount_of_segments * per_segment, per_segment,
                          copy_vec)
                 ELSE rebalance_fill(k, start, end, amount_of_segments,
                                     per_segment, copy_vec))

is_node_right_child(leaf) == (leaf.start \div (leaf.end - leaf.start + 1)) % 2 # 0

\* the loop `while depth > 0 && !self.is_right_density(depth, density)` of
\* insert (extra = 1: the key to come is counted) and remove (extra = 0)
RECURSIVE widen(_, _, _, _, _)
widen(k, leaf, depth, stats, extra) ==
    IF stats.panic THEN [leaf |-> leaf, depth |-> depth, stats |-> stats]
    ELSE IF depth > 0 /\ ~is_right_density(k, depth, stats.valid_elements + extra,
                                           stats.positions_in_vec)
    THEN LET width == leaf.end - leaf.start + 1
             wider == IF is_node_right_child(leaf)
                      THEN [leaf EXCEPT !.start = leaf.start - width]
                      ELSE [leaf EXCEPT !.end = leaf.end + width]
         IN  widen(k, wider, depth - 1,
                   IF wider.start < 0
                   THEN [scan(k, 0, wider.end) EXCEPT !.panic = TRUE]
                   ELSE scan(k, wider.start, wider.end),
                   extra)
    ELSE [leaf |-> leaf, depth |-> depth, stats |-> stats]

\* grown: the array had to be expanded (depth == 0 and the density of the
\* widest interval still wrong)
Konan_insert(k, v) ==
    LET first_leaf == search_leaf(k, v, "insert")
        position_to_insert ==
            find_element_position_in_leaf(k.data, v, first_leaf.start,
                                          first_leaf.end, first_leaf.start)
        w == widen(k, first_leaf, k.height,
                   scan(k, first_leaf.start, first_leaf.end), 1)
        grown == w.depth = 0 /\ ~is_right_density(k, 0, w.stats.valid_elements + 1,
                                                  w.stats.positions_in_vec)
        k1 == IF grown THEN expand(k) ELSE k
        leaf == IF grown THEN [w.leaf EXCEPT !.end = DataLen(k1) - 1] ELSE w.leaf
        position == find_element_position_in_leaf(k1.data, v, leaf.start, leaf.end,
                                                  leaf.start)
    IN  IF position_to_insert = OutOfBounds THEN Panic(k)
        ELSE IF k.data[position_to_insert] = NoneV
        THEN insert_on_leaf(k, v, first_leaf, position_to_insert)
        ELSE IF w.stats.panic \/ position = OutOfBounds THEN Panic(k)
        ELSE rebalance(insert_on_leaf(k1, v, leaf, position), leaf.start, leaf.end)

\* halved: the array had to be halved
Konan_remove(k, v) ==
    LET leaf == search_leaf(k, v, "remove")
        position_to_remove == find_position_to_remove(k.data, v, leaf.start, leaf.end)
        k1 == remove_element_at(k, position_to_remove[1], leaf)
        stats == scan(k1, leaf.start, leaf.end)
        w == widen(k1, leaf, k1.height, stats, 0)
        halved == w.depth = 0 /\ ~is_right_density(k1, 0, w.stats.valid_elements,
                                                   w.stats.positions_in_vec)
        k2 == IF halved THEN halving(k1) ELSE k1
    IN  IF position_to_remove = << >> THEN k
        ELSE IF position_to_remove = << OutOfBounds >> THEN Panic(k)
        ELSE IF k1.panicked \/ stats.panic THEN Panic(k1)
        ELSE IF is_right_density(k1, k1.height, stats.valid_elements,
                                 stats.positions_in_vec)
        THEN update_new_leaf_heads(k1)
        ELSE IF w.stats.panic THEN Panic(k1)
        ELSE IF DataLen(k2) = 2 THEN [k2 EXCEPT !.leaf_heads = << >>]
        ELSE rebalance(k2, w.leaf.start,
                       IF halved THEN DataLen(k2) - 1 ELSE w.leaf.end)

\* Option<&T>: NoneV or the key found
Konan_successor(k, v) ==
    IF k.leaf_heads = << >> THEN NoneV
    ELSE LET found == binary_search(k.leaf_heads, v, 0, Len(k.leaf_heads) - 1,
                                    "successor")[1]
             low == IF found = Len(k.leaf_heads) THEN Len(k.leaf_heads) - 1 ELSE found
             real_low == low * k.segment_size
             greater == {i \in DOMAIN k.data : i >= real_low /\ k.data[i] > v}
         IN  IF real_low > DataLen(k) THEN OutOfBounds
             ELSE IF greater = {} THEN NoneV
             ELSE k.data[CHOOSE i \in greater : \A j \in greater : i <= j]

\* what KonanIter yields
Konan_iter(k) == Compact(k.data, 0, DataLen(k) - 1)

(* ---------------------------- state machine ---------------------------- *)
\* hist[v + 1] is the multiset of keys a caller expects in version v: the
\* keys inserted minus those removed by the first v mutations
EmptyBag == [k \in Keys \cup DupKeys |-> 0]
LastBag == hist[Len(hist)]
BagAdd(b, k) == [b EXCEPT ![k] = @ + 1]
BagDel(b, k) == [b EXCEPT ![k] = @ - 1]
Removed(b, k) == IF b[k] > 0 THEN BagDel(b, k) ELSE b

\* the answers of get and successor_by_key at version v, for every key asked
Answers(g, v) ==
    [k \in QueryKeys |-> <<get(g, k, v), successor_by_key(g, k, v)>>]

\* Gojo::new: the sentinel is boxed, roots[0] names it, root is NodePtr::null()
NewGojo ==
    [recs |-> [i \in {Nil} |-> NilNode], root |-> Null, len |-> 0,
     curr_version |-> 0, roots |-> << <<Nil, 0>> >>, diverged |-> FALSE]

\* state after Gojo::new
Init ==
    /\ recs = NewGojo.recs
    /\ root = NewGojo.root
    /\ len = NewGojo.len
    /\ curr_version = NewGojo.curr_version
    /\ roots = NewGojo.roots
    /\ seen = << Answers(NewGojo, 0) >>
    /\ status = "ok"
    /\ op = "new"
    /\ arg = 0
    /\ ret = NoneV
    /\ hist = << EmptyBag >>
    /\ konan = NewKonan
    /\ stored = [k \in KonanKeys |-> 0]
    /\ kcall = [op |-> "new", arg |-> 0, ret |-> NoneV]
    /\ kops = 0

Commit(g) ==
    /\ recs' = g.recs
    /\ root' = g.root
    /\ len' = g.len
    /\ curr_version' = g.curr_version
    /\ roots' = g.roots

\* the process dies on the null-pointer read: nothing is written
Crash(name, k) ==
    /\ status' = "crashed"
    /\ op' = name
    /\ arg' = k
    /\ ret' = Fault
    /\ UNCHANGED <<recs, root, len, curr_version, roots, hist, seen>>
    /\ UNCHANGED kvars

\* the call never returns: no caller sees the engine again
Hang(name, k) ==
    /\ status' = "diverged"
    /\ op' = name
    /\ arg' = k
    /\ ret' = Diverge
    /\ UNCHANGED <<recs, root, len, curr_version, roots, hist, seen>>
    /\ UNCHANGED kvars

\* what a read through Null can produce: a fault, or some key that sends
\* find_node to a null child, so that it returns NodePtr::null()
FindOutcomes(node) == IF node = Fault THEN {Fault, Null} ELSE {node}

\* the engine of the next state, what the call returned to its caller, and
\* what the caller now expects the versions to hold; a caller that watches
\* asks every key at the version just made
Return(name, k, g, r, bag, watch) ==
    IF g.diverged THEN Hang(name, k)
    ELSE /\ Commit(g)
         /\ op' = name
         /\ arg' = k
         /\ ret' = r
         /\ hist' = IF g.curr_version = curr_version THEN hist ELSE Append(hist, bag)
         /\ seen' = IF watch /\ g.curr_version # curr_version
                    THEN Append(seen, Answers(g, g.curr_version))
                    ELSE seen
         /\ UNCHANGED status
         /\ UNCHANGED kvars

InsertDone(k, g, watch) ==
    Return("insert", k, g, NoneV, BagAdd(LastBag, k), watch)

RemoveDone(name, k, r, watch) ==
    Return(name, k, r.g, r.ret, Removed(LastBag, k), watch)

InsertOp(k, maxOps, watch) ==
    /\ status = "ok"
    /\ curr_version < maxOps
    /\ InsertDone(k, insert(Engine, k, ValueOf(k)), watch)

RemoveOp(k, maxOps, watch) ==
    /\ status = "ok"
    /\ \E node \in FindOutcomes(find_node(Engine, k, curr_version)) :
        IF node = Fault THEN Crash("remove", k)
        ELSE IF node = Diverge THEN Hang("remove", k)
        ELSE /\ is_null(node) \/ curr_version < maxOps
             /\ RemoveDone("remove", k, remove(Engine, node), watch)

CollegeRemoveOp(k, maxOps, watch) ==
    /\ status = "ok"
    /\ curr_version < maxOps
    /\ \E node \in FindOutcomes(find_node(Engine, k, curr_version)) :
        IF node = Fault THEN Crash("college_remove", k)
        ELSE IF node = Diverge THEN Hang("college_remove", k)
        ELSE RemoveDone("college_remove", k, college_remove(Engine, node), watch)

\* callers that keep keys unique within a version
Insert(k) == LastBag[k] = 0 /\ InsertOp(k, MaxOps, FALSE)
Remove(k) == RemoveOp(k, MaxOps, FALSE)
CollegeRemove(k) == CollegeRemoveOp(k, MaxOps, FALSE)

Next ==
    \/ \E k \in Keys : Insert(k)
    \/ \E k \in Keys : Remove(k)
    \/ \E k \in Keys : CollegeRemove(k)

Spec == Init /\ [][Next]_vars

\* callers that also insert keys already present (the multiset use) and
\* watch the answers of every version
InsertDup(k) == InsertOp(k, MaxDupOps, TRUE)
RemoveDup(k) == RemoveOp(k, MaxDupOps, TRUE)
CollegeRemoveDup(k) == CollegeRemoveOp(k, MaxDupOps, TRUE)

NextDup ==
    \/ \E k \in DupKeys : InsertDup(k)
    \/ \E k \in DupKeys : RemoveDup(k)
    \/ \E k \in DupKeys : CollegeRemoveDup(k)

SpecDup == Init /\ [][NextDup]_vars

\* A call that is making version V_cur + 1 writes one field of a node of
\* the tree whose current record has a full mod log, as the unit tests of
\* the "bursted" node do with a record they filled themselves; a link is
\* given nil or another node of the tree.  The state it leaves is the
\* middle of a mutation: no call starts from it.
RECURSIVE NodesBelow(_, _, _, _)
NodesBelow(rs, p, version, fuel) ==
    IF is_null(p) \/ fuel = 0 THEN {}
    ELSE {p} \cup NodesBelow(rs, left(rs, p, version), version, fuel - 1)
             \cup NodesBelow(rs, right(rs, p, version), version, fuel - 1)

LiveRecords == NodesBelow(recs, RootOf(Engine, curr_version), curr_version, NewPtr(recs))

FullRecords == {p \in LiveRecords : Len(recs[p].mods) = MAX_MODS}

Written(name, p, data, rs) ==
    /\ recs' = rs
    /\ status' = "written"
    /\ op' = name
    /\ arg' = p
    /\ ret' = data
    /\ UNCHANGED <<root, len, curr_version, roots, hist, seen>>
    /\ UNCHANGED kvars

SetRedColor(p) ==
    /\ status = "ok" /\ p \in FullRecords
    /\ Written("set_red_color", p, 0, set_red_color(recs, p, curr_version + 1))

SetBlackColor(p) ==
    /\ status = "ok" /\ p \in FullRecords
    /\ Written("set_black_color", p, 0, set_black_color(recs, p, curr_version + 1))

SetLeft(p, q) ==
    /\ status = "ok" /\ p \in FullRecords /\ q \in (LiveRecords \ {p}) \cup {Nil}
    /\ Written("set_left", p, q, set_left(recs, p, q, curr_version + 1))

SetRight(p, q) ==
    /\ status = "ok" /\ p \in FullRecords /\ q \in (LiveRecords \ {p}) \cup {Nil}
    /\ Written("set_right", p, q, set_right(recs, p, q, curr_version + 1))

SetParent(p, q) ==
    /\ status = "ok" /\ p \in FullRecords /\ q \in (LiveRecords \ {p}) \cup {Nil}
    /\ Written("set_parent", p, q, set_parent(recs, p, q, curr_version + 1))

NextWrite ==
    \/ Next
    \/ \E p \in DOMAIN recs : SetRedColor(p)
    \/ \E p \in DOMAIN recs : SetBlackColor(p)
    \/ \E p, q \in DOMAIN recs : SetLeft(p, q)
    \/ \E p, q \in DOMAIN recs : SetRight(p, q)
    \/ \E p, q \in DOMAIN recs : SetParent(p, q)

SpecWrite == Init /\ [][NextWrite]_vars

(* ------------------------- the Konan callers ---------------------------- *)
\* a call that panicked leaves no Konan to call
KonanDone(name, v, k, r, expect) ==
    /\ konan' = k
    /\ stored' = expect
    /\ kcall' = [op |-> name, arg |-> v,
                 ret |-> IF k.panicked THEN OutOfBounds ELSE r]
    /\ kops' = IF name = "successor" THEN kops ELSE kops + 1
    /\ UNCHANGED gvars

KonanInsertOp(v, limit) ==
    /\ ~konan.panicked /\ kops < limit
    /\ KonanDone("insert", v, Konan_insert(konan, v), NoneV,
                 [stored EXCEPT ![v] = @ + 1])

KonanInsertOnly(v) == KonanInsertOp(v, MaxInserts)
KonanInsert(v) == KonanInsertOp(v, MaxKonanOps)

KonanRemove(v) ==
    /\ ~konan.panicked /\ kops < MaxKonanOps
    /\ KonanDone("remove", v, Konan_remove(konan, v), NoneV,
                 [stored EXCEPT ![v] = IF @ > 0 THEN @ - 1 ELSE @])

KonanSuccessor(v) ==
    /\ ~konan.panicked
    /\ KonanDone("successor", v,
                 IF Konan_successor(konan, v) = OutOfBounds THEN Panic(konan)
                 ELSE konan,
                 Konan_successor(konan, v), stored)

NextKonanInsert == \E v \in KonanKeys : KonanInsertOnly(v)

SpecKonanInsert == Init /\ [][NextKonanInsert]_vars

NextKonan ==
    \/ \E v \in KonanKeys : KonanInsert(v)
    \/ \E v \in KonanKeys : KonanRemove(v)
    \/ \E v \in 0..MaxKonanKey : KonanSuccessor(v)

SpecKonan == Init /\ [][NextKonan]_vars

\* the keys the caller expects iter() to yield: ascending, each as often as
\* it is stored
RECURSIVE StoredFrom(_, _)
StoredFrom(b, v) ==
    IF v > MaxKonanKey THEN << >>
    ELSE [i \in 1..b[v] |-> v] \o StoredFrom(b, v + 1)
StoredKeys == StoredFrom(stored, 1)

(* ------------------- views of a version used in the properties ---------- *)
Versions == 0..curr_version

\* the multiset of keys expected at version v (keys outside Keys never occur)
Expected(v, k) ==
    IF k \in DOMAIN EmptyBag /\ v + 1 <= Len(hist) THEN hist[v + 1][k] ELSE 0

\* the smallest expected key above k at version v, or 0
ExpectedSuccessor(v, k) ==
    LET above == {j \in DOMAIN EmptyBag : j > k /\ Expected(v, j) > 0} IN
    IF above = {} THEN 0 ELSE CHOOSE j \in above : \A i \in above : j <= i

\* the largest expected key below k at version v, or 0
ExpectedPredecessor(v, k) ==
    LET below == {j \in DOMAIN EmptyBag : j < k /\ Expected(v, j) > 0} IN
    IF below = {} THEN 0 ELSE CHOOSE j \in below : \A i \in below : i <= j

\* the expected keys of version v in ascending order, each as often as stored
RECURSIVE BagSeq(_, _)
BagSeq(v, k) ==
    IF k \notin DOMAIN EmptyBag THEN << >>
    ELSE [i \in 1..Expected(v, k) |-> k] \o BagSeq(v, k + 1)

\* the keys met by an in-order walk of the links read at `version`; a walk
\* deeper than the number of records met a cycle and yields <<-1>>
RECURSIVE InOrderKeys(_, _, _, _)
InOrderKeys(rs, p, version, fuel) ==
    IF is_null(p) THEN << >>
    ELSE IF fuel = 0 THEN << -1 >>
    ELSE InOrderKeys(rs, left(rs, p, version), version, fuel - 1)
         \o << rs[p].key >>
         \o InOrderKeys(rs, right(rs, p, version), version, fuel - 1)

KeysOfVersion(v) == InOrderKeys(recs, RootOf(Engine, v), v, NewPtr(recs))

\* number of Black nodes on every path from p down to a null link, or -1
\* when two paths differ, a Red node has a Red child, or the walk met a cycle
RECURSIVE BlackHeight(_, _, _, _)
BlackHeight(rs, p, version, fuel) ==
    IF is_null(p) THEN 0
    ELSE IF fuel = 0 THEN -1
    ELSE LET l == left(rs, p, version)
             r == right(rs, p, version)
             hl == BlackHeight(rs, l, version, fuel - 1)
             hr == BlackHeight(rs, r, version, fuel - 1)
         IN  IF hl < 0 \/ hr < 0 \/ hl # hr THEN -1
             ELSE IF /\ is_red_color(rs, p, version)
                     /\ is_red_color(rs, l, version) \/ is_red_color(rs, r, version)
                  THEN -1
             ELSE hl + (IF is_black_color(rs, p, version) THEN 1 ELSE 0)

StrictlyAscending(s) == \A i \in 1..(Len(s) - 1) : s[i] < s[i + 1]
Ascending(s) == \A i \in 1..(Len(s) - 1) : s[i] <= s[i + 1]

RootIsBlack(v) == get_color(recs, RootOf(Engine, v), v) = Black
ColoursBalanced(v) == BlackHeight(recs, RootOf(Engine, v), v, NewPtr(recs)) >= 0

\* some record was copied: a non-sentinel record has a next_copy
Copied == \E p \in DOMAIN recs : p # Nil /\ recs[p].next_copy # Null

\* the in-order walk of version `version` below p as <<key, colour, depth>>
\* triples; a walk deeper than the number of records met a cycle
RECURSIVE NodeInfos(_, _, _, _, _)
NodeInfos(rs, p, version, depth, fuel) ==
    IF is_null(p) THEN << >>
    ELSE IF fuel = 0 THEN << <<-1, Black, depth>> >>
    ELSE NodeInfos(rs, left(rs, p, version), version, depth + 1, fuel - 1)
         \o << <<rs[p].key, get_color(rs, p, version), depth>> >>
         \o NodeInfos(rs, right(rs, p, version), version, depth + 1, fuel - 1)

ShapeOf(g, v) == NodeInfos(g.recs, RootOf(g, v), v, 0, NewPtr(g.recs))

\* the keys iter(v) yields, in the order it yields them
IterKeys(v) == [i \in 1..Len(iter(Engine, v).items) |-> iter(Engine, v).items[i][1]]

\* the number of inserts among the calls that made the versions: each adds
\* one key to what the caller expects
Inserts ==
    Cardinality({v \in 1..(Len(hist) - 1) :
                    \E k \in DOMAIN EmptyBag : hist[v + 1][k] > hist[v][k]})

\* what node_info_iter(v) yields, as <<key, colour, depth>>
NodeInfoShape(v) ==
    [i \in 1..Len(node_info_iter(Engine, v).items) |->
        << node_info_iter(Engine, v).items[i].key,
           node_info_iter(Engine, v).items[i].color,
           node_info_iter(Engine, v).items[i].depth >>]

\* find_node(k, V_cur) returns a node
Finds(k) == find_node(Engine, k, curr_version) \notin {Nil, Null, Fault, Diverge}

\* the engine of the next state
EngineNext ==
    [recs |-> recs', root |-> root', len |-> len', curr_version |-> curr_version',
     roots |-> roots', diverged |-> FALSE]

(* ------------------------------- claims -------------------------------- *)

\* C1: persistence.  No insert, remove or college_remove changes what
\* get(k, v) or successor_by_key(k, v) returns for a version v that existed
\* before the call, for every key k: at every version the two queries still
\* answer what they answered when the call that made the version returned.
C1_Persistence ==
    \A v \in Versions : Answers(Engine, v) = seen[v + 1]

\* a remove that found its key has just made a version that answers
\* differently from the one before it, in an arena where records were copied
C1_Witness ==
    /\ status = "ok" /\ op = "remove" /\ ret # NoneV /\ Copied
    /\ get(Engine, arg, curr_version - 1) = ValueOf(arg)
    /\ get(Engine, arg, curr_version) = NoneV
    /\ \E k \in QueryKeys : successor_by_key(Engine, k, curr_version - 1)
                             # successor_by_key(Engine, k, curr_version)

\* C2: with inserts of keys not already present mixed with removes, for
\* every version v <= V_cur and every key k, get(k, v) is Some(the value
\* inserted with k) exactly when k was inserted and not yet removed within
\* the first v mutations, and None otherwise.
C2_GetMatchesHistory ==
    \A v \in Versions : \A k \in QueryKeys :
        get(Engine, k, v) = IF Expected(v, k) > 0 THEN ValueOf(k) ELSE NoneV

\* C3: successor_by_key(k, v) is the value of the smallest key of version v
\* strictly greater than k, stored or not, and None when there is none.
C3_SuccessorMatchesHistory ==
    \A v \in Versions : \A k \in QueryKeys :
        successor_by_key(Engine, k, v) =
            IF ExpectedSuccessor(v, k) = 0 THEN NoneV
            ELSE ValueOf(ExpectedSuccessor(v, k))

\* C4: with keys unique within a version, the tree of every version
\* v <= V_cur, read at v from roots[v].root, is a valid red-black tree: Black
\* root, no Red node with a Red child, equal Black count on every
\* root-to-nil path, keys in BST order.
C4_RedBlackAllVersions ==
    \A v \in Versions :
        /\ RootIsBlack(v)
        /\ ColoursBalanced(v)
        /\ StrictlyAscending(KeysOfVersion(v))

\* a remove has just taken a key out of a tree of four, whose records were
\* copied on the way, and left the older versions in place
C4_Witness ==
    /\ status = "ok" /\ op = "remove" /\ ret # NoneV /\ Copied
    /\ Len(KeysOfVersion(curr_version)) = 3
    /\ Len(KeysOfVersion(curr_version - 1)) = 4

\* C5: latest_version() starts at 0; every insert, every remove that finds
\* its key and every college_remove raises it by exactly 1; roots always has
\* latest_version() + 1 entries, roots[0] is (nil, 0), and no call alters an
\* entry of a version completed before it started.
C5_VersionRegistry ==
    [][/\ op = "new" => (curr_version = 0 /\ roots = << <<Nil, 0>> >>)
       /\ (\/ op' \in {"insert", "college_remove"}
           \/ op' = "remove" /\ Finds(arg'))
          => curr_version' = curr_version + 1
       /\ Len(roots') = curr_version' + 1
       /\ roots'[1] = <<Nil, 0>>
       /\ \A v \in Versions : roots'[v + 1] = roots[v + 1]]_vars

\* C6: for every version v <= V_cur, iter(v) yields exactly len(v) entries,
\* in ascending key order, and the multiset of their keys is the multiset
\* of keys inserted minus those removed by the first v mutations.
C6_IterMatchesHistory ==
    \A v \in Versions :
        /\ ~iter(Engine, v).err
        /\ Len(IterKeys(v)) = len_at(Engine, v)
        /\ Ascending(IterKeys(v))
        /\ IterKeys(v) = BagSeq(v, 1)

\* C7: remove(k) and college_remove(k) with k present at V_cur return the
\* value that was inserted with k, whatever the shape around k's node, and
\* k is absent from the new version and still present in the one before.
C7_RemoveReturnsValue ==
    [][(op' \in {"remove", "college_remove"} /\ Expected(curr_version, arg') > 0)
       => /\ ret' = ValueOf(arg')
          /\ get(EngineNext, arg', curr_version') = NoneV
          /\ get(EngineNext, arg', curr_version' - 1) = ValueOf(arg')]_vars

\* C8: college_remove(k) with k absent at V_cur returns None and advances
\* V_cur by exactly 1; the new version has the length, keys, colours and
\* depths of the one before it, and every query answers at the new version
\* as at the previous one.
C8_CollegeRemoveMiss ==
    [][(op' = "college_remove" /\ Expected(curr_version, arg') = 0)
       => /\ ret' = NoneV
          /\ curr_version' = curr_version + 1
          /\ len_at(EngineNext, curr_version') = len_at(EngineNext, curr_version)
          /\ ShapeOf(EngineNext, curr_version') = ShapeOf(EngineNext, curr_version)
          /\ iter(EngineNext, curr_version') = iter(EngineNext, curr_version)
          /\ Answers(EngineNext, curr_version') = Answers(EngineNext, curr_version)]_vars

\* C9: remove(k) with k absent at V_cur returns None and changes nothing:
\* V_cur, the registry, the current length and every node record stay as
\* they were.
C9_RemoveMiss ==
    [][(op' = "remove" /\ Expected(curr_version, arg') = 0)
       => /\ ret' = NoneV
          /\ UNCHANGED <<recs, root, len, curr_version, roots>>]_vars

\* C10: insert does not deduplicate, and with equal keys in the tree every
\* version still has a Black root, no Red node with a Red child, equal
\* Black counts on all root-to-nil paths and keys in non-decreasing order.
C10_RedBlackWithDuplicates ==
    \A v \in Versions :
        /\ RootIsBlack(v)
        /\ ColoursBalanced(v)
        /\ Ascending(KeysOfVersion(v))
        /\ KeysOfVersion(v) = BagSeq(v, 1)

\* C11: predecessor(k, v) for v <= V_cur is the value of the largest key of
\* version v strictly less than k, and None when version v holds no key
\* less than k.
C11_PredecessorMatchesHistory ==
    \A v \in Versions : \A k \in QueryKeys :
        predecessor(Engine, k, v) =
            IF ExpectedPredecessor(v, k) = 0 THEN NoneV
            ELSE ValueOf(ExpectedPredecessor(v, k))


\* C12: for every version v <= V_cur that holds at least one key,
\* node_info_iter(v) yields the keys of version v in ascending order, each
\* with the colour its node has at v and with depth equal to the number of
\* edges between that node and the root of version v.
C12_NodeInfoIterMatchesTree ==
    \A v \in Versions :
        BagSeq(v, 1) # << >> =>
            /\ ~node_info_iter(Engine, v).err
            /\ [i \in 1..Len(NodeInfoShape(v)) |-> NodeInfoShape(v)[i][1]] = BagSeq(v, 1)
            /\ NodeInfoShape(v) = ShapeOf(Engine, v)


\* C13: iter(v) and node_info_iter(v) return the UnknownVersion error when
\* v > latest_version() and an iterator when v <= latest_version().  Both
\* take &self and are functions of the engine here, so the call that returns
\* the error has no engine of its own to leave changed; what is checked is
\* that the error is returned exactly above latest_version() and that below
\* it the iterator is built, head and tail, without a fault or an endless walk.
C13_IterUnknownVersion ==
    \A v \in 0..(curr_version + 2) :
        IF v > curr_version
        THEN iter(Engine, v).err /\ node_info_iter(Engine, v).err
        ELSE /\ ~iter(Engine, v).err
             /\ iter(Engine, v).head \notin {Fault, Diverge}
             /\ iter(Engine, v).tail \notin {Fault, Diverge}
             /\ ~node_info_iter(Engine, v).err
             /\ node_info_iter(Engine, v).head.node_ptr \notin {Fault, Diverge}
             /\ node_info_iter(Engine, v).tail \notin {Fault, Diverge}


\* C14: get, contains_key, len, is_empty, successor_by_key and predecessor
\* called with v > V_cur report an error, an outcome that differs from the
\* answer each of them gives at a known version for a missing key, for an
\* empty version or for a key with no neighbour (None, false, Some(n), true,
\* None, None).
C14_UnknownVersionIsAnError ==
    \A v \in (curr_version + 1)..(curr_version + 2) : \A k \in QueryKeys :
        /\ get(Engine, k, v) # NoneV
        /\ contains_key(Engine, k, v) # FALSE
        /\ len_at(Engine, v) \notin Nat
        /\ is_empty(Engine, v) # TRUE
        /\ successor_by_key(Engine, k, v) # NoneV
        /\ predecessor(Engine, k, v) # NoneV


C20_ModLogBounded ==
    /\ \A p \in DOMAIN recs :
          /\ Len(recs[p].mods) <= MAX_MODS
          /\ (~is_null(recs[p].next_copy) => Len(recs[p].mods) = MAX_MODS)
          /\ \A q \in DOMAIN recs :
                (~is_null(recs[p].next_copy) /\ recs[p].next_copy = recs[q].next_copy)
                    => p = q
    /\ NewPtr(recs) =
          1 + Inserts + Cardinality({p \in DOMAIN recs : ~is_null(recs[p].next_copy)})

\* an insert has just written to a record whose mod log was full
C20_Witness ==
    /\ status = "ok" /\ op = "insert"
    /\ \E p \in DOMAIN recs :
          /\ Len(recs[p].mods) = MAX_MODS
          /\ ~is_null(recs[p].next_copy)
          /\ recs[recs[p].next_copy].version = curr_version

\* the field a write names and the value it gives it
WrittenKind(name) ==
    CASE name = "set_left" -> "Left"
      [] name = "set_right" -> "Right"
      [] name = "set_parent" -> "Parent"
      [] OTHER -> "Col"

WrittenData(name, data) ==
    CASE name = "set_red_color" -> Red
      [] name = "set_black_color" -> Black
      [] OTHER -> data

\* the four fields of p as version w reads them in arena rs
FieldsAt(rs, p, w) ==
    << get_color(rs, p, w), left(rs, p, w), right(rs, p, w), parent(rs, p, w) >>

\* the latest logical fields of record p: the last entry of each kind, or
\* the baseline
LatestOf(rs, p, kind) ==
    LET of_kind == {i \in 1..Len(rs[p].mods) : rs[p].mods[i].kind = kind}
        base == CASE kind = "Left" -> rs[p].left
                  [] kind = "Right" -> rs[p].right
                  [] kind = "Parent" -> rs[p].parent
                  [] kind = "Col" -> rs[p].color
    IN  IF of_kind = {} THEN base
        ELSE rs[p].mods[CHOOSE i \in of_kind : \A j \in of_kind : j <= i].data

\* what C18 says of a write of `data` to field `kind` of p at version v that
\* took arena rs to arena rs2.  The copy's mod log is empty when the copy is
\* boxed and linked; by the time the write returns, the neighbours the copy
\* notified may have answered with writes of their own to it, all at v.
CopyMade(rs, rs2, p, kind, data, v) ==
    LET c == rs2[p].next_copy IN
    /\ c = NewPtr(rs)
    /\ rs2[c].version = v
    /\ new_gojo_node(rs, p, kind, data, v)[c].mods = << >>
    /\ \A i \in 1..Len(rs2[c].mods) : rs2[c].mods[i].version = v
    /\ rs2[c].key = rs[p].key /\ rs2[c].value = rs[p].value
    /\ rs2[c].color = IF kind = "Col" THEN data ELSE LatestOf(rs, p, "Col")
    /\ rs2[c].left = IF kind = "Left" THEN data ELSE LatestOf(rs, p, "Left")
    /\ rs2[c].right = IF kind = "Right" THEN data ELSE LatestOf(rs, p, "Right")
    /\ rs2[c].parent = IF kind = "Parent" THEN data ELSE LatestOf(rs, p, "Parent")
    /\ CASE kind = "Col" -> get_color(rs2, p, v) = data
         [] kind = "Left" -> left(rs2, p, v) = get_last_copy(rs2, data, v)
         [] kind = "Right" -> right(rs2, p, v) = get_last_copy(rs2, data, v)
         [] kind = "Parent" -> parent(rs2, p, v) = get_last_copy(rs2, data, v)
    /\ \A w \in 0..(v - 1) : FieldsAt(rs2, p, w) = FieldsAt(rs, p, w)

C15_InsertKeepsEveryKey ==
    /\ ~konan.panicked
    /\ Konan_iter(konan) = StoredKeys

\* an insert that found its slot taken in an array grown to 8 slots, with
\* segments grown as well and a key stored three times
C15_Witness ==
    /\ kcall.op = "insert"
    /\ kops = MaxInserts
    /\ DataLen(konan) >= 8
    /\ konan.segment_size > 2
    /\ stored[kcall.arg] >= 3
    /\ \E v \in KonanKeys : v # kcall.arg /\ stored[v] >= 2

\* s without the first v in it
RECURSIVE RemoveOne(_, _)
RemoveOne(s, v) ==
    IF s = << >> THEN << >>
    ELSE IF Head(s) = v THEN Tail(s)
    ELSE << Head(s) >> \o RemoveOne(Tail(s), v)

\* C16: Konan::remove(k) does not panic and takes exactly one k out of
\* the keys iter() yielded before it, in whichever slot it was, and none
\* when k was not among them; the keys left are yielded in ascending order.
C16_RemoveTakesOneOccurrence ==
    [][(kcall'.op = "remove" /\ kops' # kops)
       => /\ ~konan'.panicked
          /\ Konan_iter(konan') = RemoveOne(Konan_iter(konan), kcall'.arg)]_vars

\* the keys of s greater than v
Greater(s, v) == {s[i] : i \in {j \in DOMAIN s : s[j] > v}}

\* C17: successor(k) returns the smallest key in the array greater than
\* k, and None exactly when there is none.
C17_SuccessorIsNextKey ==
    kcall.op = "successor"
    => kcall.ret = IF Greater(Konan_iter(konan), kcall.arg) = {} THEN NoneV
                   ELSE CHOOSE x \in Greater(Konan_iter(konan), kcall.arg) :
                           \A y \in Greater(Konan_iter(konan), kcall.arg) : x <= y

\* the slots of segment i (counted from 0) and the keys in them
SegmentSlots(k, i) ==
    {j \in DOMAIN k.data : i * k.segment_size <= j /\ j < (i + 1) * k.segment_size}
SegmentKeys(k, i) == {k.data[j] : j \in {n \in SegmentSlots(k, i) : k.data[n] # NoneV}}

\* C27: after every Konan insert or remove that returned, every segment
\* that holds a key has the smallest of its keys in its first slot, and
\* leaf_heads has an entry for the segment that equals that key.
C27_LeafHeadsAreSegmentMinima ==
    (~konan.panicked /\ konan.segment_size > 0)
    => \A i \in 0..(DataLen(konan) - 1) :
          SegmentKeys(konan, i) # {}
          => /\ konan.data[i * konan.segment_size] # NoneV
             /\ \A x \in SegmentKeys(konan, i) : konan.data[i * konan.segment_size] <= x
             /\ i + 1 \in DOMAIN konan.leaf_heads
             /\ konan.leaf_heads[i + 1] = konan.data[i * konan.segment_size]

RECURSIVE PowerOfTwo(_)
PowerOfTwo(n) == n = 1 \/ (n > 1 /\ n % 2 = 0 /\ PowerOfTwo(n \div 2))

\* a Konan insert or remove has returned
KonanMutated ==
    kcall'.op \in {"insert", "remove"} /\ kops' # kops /\ ~konan'.panicked

KonanExpanded ==
    /\ kcall'.op = "insert" /\ kops' # kops /\ ~konan'.panicked
    /\ DataLen(konan') = 2 * DataLen(konan)

\* C29 as stated: when an insert expands the array, the segment size is
\* doubled and the height kept exactly when log2 of the doubled length is
\* >= 2 * |leaf_heads|; otherwise the height grows by one and the segment
\* size is kept.
C29_ExpandAsStated ==
    [][KonanExpanded
       => IF Log2(2 * DataLen(konan)) >= 2 * Len(konan.leaf_heads)
          THEN konan'.segment_size = 2 * konan.segment_size
               /\ konan'.height = konan.height
          ELSE konan'.segment_size = konan.segment_size
               /\ konan'.height = konan.height + 1]_vars

\* C29 amended: when an insert expands the array, the segment size is
\* doubled and the height kept exactly when log2 of the doubled length is
\* LESS THAN 2 * |leaf_heads|; otherwise the height grows by one and the
\* segment size is kept.
C29_ExpandGrowsSegmentOrHeight ==
    [][KonanExpanded
       => IF Log2(2 * DataLen(konan)) < 2 * Len(konan.leaf_heads)
          THEN konan'.segment_size = 2 * konan.segment_size
               /\ konan'.height = konan.height
          ELSE konan'.segment_size = konan.segment_size
               /\ konan'.height = konan.height + 1]_vars

\* inserts alone have expanded the array on both branches: the segment
\* size and the height have both grown since Konan::default
C29_Witness ==
    /\ kcall.op = "insert"
    /\ ~konan.panicked
    /\ stored = [v \in KonanKeys |-> IF v = 1 THEN kops ELSE 0]
    /\ konan.segment_size > 2
    /\ konan.height > 0

\* C30: every registered root is the nil sentinel or a record of the arena,
\* never NodePtr::null(); and on every version that holds no key get and
\* successor_by_key return None for every key and iter and node_info_iter
\* yield nothing, without a read through a null pointer.
C30_EmptyVersionsAreSafe ==
    \A v \in Versions :
        /\ RootOf(Engine, v) \in DOMAIN recs
        /\ BagSeq(v, 1) = << >>
           => /\ \A k \in QueryKeys :
                    /\ get(Engine, k, v) = NoneV
                    /\ successor_by_key(Engine, k, v) = NoneV
              /\ ~iter(Engine, v).err
              /\ iter(Engine, v).items = << >>
              /\ ~node_info_iter(Engine, v).err
              /\ node_info_iter(Engine, v).head.node_ptr # Fault
              /\ node_info_iter(Engine, v).items = << >>

\* C21: in every record the mod log is strictly ordered by version, each
\* entry's version greater than the previous entry's, and no entry carries a
\* version greater than curr_version.
C21_ModLogStrictlyOrdered ==
    \A p \in DOMAIN recs :
        /\ \A i \in 1..Len(recs[p].mods) : recs[p].mods[i].version <= curr_version
        /\ \A i \in 1..(Len(recs[p].mods) - 1) :
              recs[p].mods[i].version < recs[p].mods[i + 1].version

\* C21 as the code keeps it: versions in a mod log never decrease, the writes
\* of one mutation to one record sharing its version, and no entry carries a
\* version greater than curr_version.
C21_ModLogOrdered ==
    \A p \in DOMAIN recs :
        /\ \A i \in 1..Len(recs[p].mods) : recs[p].mods[i].version <= curr_version
        /\ \A i \in 1..(Len(recs[p].mods) - 1) :
              recs[p].mods[i].version <= recs[p].mods[i + 1].version

\* one record's mod log holds two entries of one mutation next to each other
\* and two entries of different mutations next to each other
C21_Witness ==
    /\ status = "ok"
    /\ \E p \in DOMAIN recs :
          /\ \E i \in 1..(Len(recs[p].mods) - 1) :
                recs[p].mods[i].version = recs[p].mods[i + 1].version
          /\ \E j \in 1..(Len(recs[p].mods) - 1) :
                recs[p].mods[j].version < recs[p].mods[j + 1].version

\* the baseline of a record: the fields given to it when it was boxed
Baseline(node) ==
    [key |-> node.key, value |-> node.value, version |-> node.version,
     color |-> node.color, left |-> node.left, right |-> node.right,
     parent |-> node.parent]

\* C22: once a non-sentinel record exists, its key, value, birth version and
\* baseline colour and links never change; its mod log changes only by
\* appending at the tail; and after its next_copy is set its mod log is never
\* appended to again and next_copy is never reassigned.
C22_RecordsAreAppendOnly ==
    [][\A p \in DOMAIN recs \ {Nil} :
          /\ p \in DOMAIN recs'
          /\ Baseline(recs'[p]) = Baseline(recs[p])
          /\ Len(recs'[p].mods) >= Len(recs[p].mods)
          /\ SubSeq(recs'[p].mods, 1, Len(recs[p].mods)) = recs[p].mods
          /\ ~is_null(recs[p].next_copy)
                => /\ recs'[p].mods = recs[p].mods
                   /\ recs'[p].next_copy = recs[p].next_copy]_vars

\* a remove has run on a tree in which one record has a copy and another
\* record, boxed before the call, has a longer mod log than before
C22_Witness ==
    /\ status = "ok"
    /\ op = "remove"
    /\ \E p \in DOMAIN recs \ {Nil} :
          /\ ~is_null(recs[p].next_copy)
          /\ recs[recs[p].next_copy].version < curr_version
    /\ \E q \in DOMAIN recs \ {Nil} :
          /\ recs[q].version < curr_version
          /\ Len(recs[q].mods) > 0
          /\ recs[q].mods[Len(recs[q].mods)].version = curr_version

\* what record p can hold at a point inside a mutation that takes the arena
\* from rs to rs2: set_modification only pushes at the tail of the mod log
\* and assigns next_copy once, so the log is a prefix of the final log that
\* holds the old one, and next_copy is the old or the new link
MidRecords(rs, rs2, p) ==
    {[rs2[p] EXCEPT !.mods = SubSeq(rs2[p].mods, 1, n), !.next_copy = c] :
        n \in Len(rs[p].mods)..Len(rs2[p].mods),
        c \in {rs[p].next_copy, rs2[p].next_copy}}

\* colour and links of every record read at version w are the same in rs
\* and at every point between rs and rs2
OldReadsKept(rs, rs2, w) ==
    \A p \in DOMAIN rs \ {Nil} :
        \A m \in MidRecords(rs, rs2, p) :
            FieldsAt([rs2 EXCEPT ![p] = m], p, w) = FieldsAt(rs, p, w)

\* C23: at every point inside an insert, remove or college_remove, after
\* any prefix of its field writes and node copies, the tree read at a
\* version that existed before the call has the keys, links and colours it
\* had before the call: the registry entry of the version is kept, every
\* entry the call pushes carries the new version, every copy it boxes is
\* born at the new version, and the in-order walk of the old version is the
\* same after the call.
C23_OldVersionsNeverHalfApplied ==
    [][recs' # recs =>
          \A w \in 0..curr_version :
              /\ roots'[w + 1] = roots[w + 1]
              /\ OldReadsKept(recs, recs', w)
              /\ ShapeOf(EngineNext, w) = ShapeOf(Engine, w)
              /\ \A p \in DOMAIN recs \ {Nil} :
                    \A i \in (Len(recs[p].mods) + 1)..Len(recs'[p].mods) :
                        recs'[p].mods[i].version = curr_version + 1
              /\ \A q \in DOMAIN recs' \ DOMAIN recs :
                    recs'[q].version = curr_version + 1]_vars

\* a remove has just rotated and copied on a tree that has two older versions
\* with keys: a record boxed before the call has a copy born in the call and
\* another has two entries of the call in its mod log
C23_Witness ==
    /\ status = "ok"
    /\ op = "remove"
    /\ curr_version >= 3
    /\ \E p \in DOMAIN recs \ {Nil} :
          /\ recs[p].version < curr_version
          /\ ~is_null(recs[p].next_copy)
          /\ recs[recs[p].next_copy].version = curr_version
    /\ \E q \in DOMAIN recs \ {Nil} :
          /\ recs[q].version < curr_version
          /\ \E i \in 1..(Len(recs[q].mods) - 1) :
                /\ recs[q].mods[i].version = curr_version
                /\ recs[q].mods[i + 1].version = curr_version

\* C24: the nil sentinel is read-only after the engine is created: no
\* insert, remove or college_remove changes its colour, left, right or
\* parent field.
C24_SentinelIsReadOnly ==
    /\ recs[Nil].color = NilNode.color
    /\ recs[Nil].left = NilNode.left
    /\ recs[Nil].right = NilNode.right
    /\ recs[Nil].parent = NilNode.parent

SameNode(a, b) ==
    IF is_null(a) \/ is_null(b) THEN is_null(a) /\ is_null(b)
    ELSE get_last_copy(recs, a, curr_version) = get_last_copy(recs, b, curr_version)

\* C26: between operations, for every node of the tree of curr_version, the
\* inverse pointers bk_ptr_left, bk_ptr_right and bk_ptr_parent of its live
\* record name the same nodes (or nil) as its left, right and parent links
\* read at curr_version.
C26_InversePointersTrackLinks ==
    status = "ok" =>
        \A p \in LiveRecords :
            /\ SameNode(recs[p].bk_ptr_left, left(recs, p, curr_version))
            /\ SameNode(recs[p].bk_ptr_right, right(recs, p, curr_version))
            /\ SameNode(recs[p].bk_ptr_parent, parent(recs, p, curr_version))

\* a remove has left a node of the current tree with an inverse pointer that
\* holds the handle of a record copied since, and the link read at
\* curr_version is the copy
C26_Witness ==
    /\ status = "ok"
    /\ op = "remove"
    /\ \E p \in LiveRecords :
          \/ /\ ~is_null(recs[p].bk_ptr_left)
             /\ ~is_null(left(recs, p, curr_version))
             /\ recs[recs[p].bk_ptr_left].next_copy = left(recs, p, curr_version)
          \/ /\ ~is_null(recs[p].bk_ptr_right)
             /\ ~is_null(right(recs, p, curr_version))
             /\ recs[recs[p].bk_ptr_right].next_copy = right(recs, p, curr_version)
          \/ /\ ~is_null(recs[p].bk_ptr_parent)
             /\ ~is_null(parent(recs, p, curr_version))
             /\ recs[recs[p].bk_ptr_parent].next_copy = parent(recs, p, curr_version)

====
